---------------------------- MODULE Spec2Model ----------------------------
(***************************************************************************)
(* A model of the forward conversion core of extended-markdown-adf-parser: *)
(*   - the Social Token Scanner   (ASTBuilder.ts)                          *)
(*   - the Mark Resolver          (ASTBuilder.ts)                          *)
(*   - the Fence Block Resolver   (MarkdownToAdfEngine.ts)                 *)
(*   - the nesting consolidation  (ASTBuilder.ts)                          *)
(*   - the annotation emit/parse  (metadata-comments.ts)                   *)
(*   - the Conversion Engine      (MarkdownToAdfEngine.ts)                 *)
(* Each component has its own variables and its own specification; the     *)
(* variables of the other components stay idle.                            *)
(*                                                                         *)
(* Strings are sequences of one-character strings, so that every regular   *)
(* expression of the source is modelled by what it matches.                *)
(***************************************************************************)
EXTENDS Integers, Sequences, FiniteSets, TLC

VARIABLES
  \* Social Token Scanner: parseInlineContentWithSocialElements
  content,      \* the argument
  remaining,    \* the local remaining
  nodes,        \* the local nodes
  spans,        \* for each node of nodes, the part [from, to) of content it stands for
  scanPc,       \* "idle" | "loop" | "done"
  \* Mark Resolver: convertMdastInlineNodes on one paragraph's children
  mdIn,         \* the mdast inline nodes
  adfOut,       \* the ADF inline nodes returned
  markPc,       \* "idle" | "ready" | "done"
  \* Fence Block Resolver: postProcessAdfFenceBlocks
  fenceIn,      \* the argument tree (its children)
  fenceTree,    \* processedTree.children
  hasChanges,   \* the local hasChanges
  passCount,    \* the local passCount
  replaced,     \* the number of replacements the last pass made (-1: no pass yet)
  fencePc,      \* "idle" | "loop" | "done"
  \* nesting consolidation: postProcessNestedAdfFenceBlocks
  consIn,       \* the argument content
  consOut,      \* the local result
  consI,        \* the loop index i, counted from 1
  consPc,       \* "idle" | "loop" | "done"
  \* annotation round trip: generateMetadataComment, parseAdfMetadataComment,
  \* applyMetadataToAdfNode
  metaNode,     \* the node [type, attrs] that is written out
  metaComment,  \* the annotations in front of the node, in order
  metaParsed,   \* the metadata parseAdfMetadataComment returned for them
  metaOut,      \* the node read back, after applyMetadataToAdfNode
  metaPc,       \* "idle" | "start" | "emitted" | "parsed" | "done"
  \* MarkdownToAdfEngine.convert and convertAsync
  engInput,     \* the argument: a value [t, n, v], t its kind
  engStrict,    \* options.strict
  engAsync,     \* TRUE for convertAsync, FALSE for convert
  engFault,     \* the stage that raises in this call, or "none"
  engMd,        \* preprocessedMarkdown
  engTree,      \* the mdast tree between the stages
  engAdf,       \* the document the builder returned
  engResult,    \* what the call returned or raised
  engSync,      \* what convert returned or raised, kept for the convertAsync call
  engCalls,     \* the calls made on this engine so far, this one included
  engCaller,    \* the tree the last stage was given, as its caller has it now
  engPc,        \* the stage the call is at, "idle" or "done"
  \* processMetadataComments on a tree
  annIn,        \* the tree passed to processMetadataComments
  annTree,      \* processedTree, the copy it works on
  annCaller,    \* the tree of the caller as it is now
  annTodo,      \* the annotation nodes the visit has still to reach, as paths
  annFound,     \* the targets found so far: records [path, target]
  annRemove,    \* toRemove
  annPc,        \* "idle" | "visit" | "done"
  \* processSpanMetadataComments on the children of one paragraph
  spanIn,       \* paragraph.children as given
  spanKids,     \* paragraph.children
  spanI,        \* the loop index i, counted from 1
  spanPc,       \* "idle" | "loop" | "done"
  \* the date patterns of findNextSocialElement on one token
  dateText,     \* the text that holds the token
  dateNode,     \* the node process returned for it
  lenientDates, \* the Date of the build takes a day past the end of its month
  datePc,       \* "idle" | "ready" | "done"
  \* forward conversion of one block: convertTokensToNodes on one token, or
  \* convertMdastNodesToADF on one node
  blkPath,      \* "tokens" (buildADF) | "mdast" (buildADFFromMdast)
  blkIn,        \* the token or the mdast node
  blkOut,       \* the ADF nodes returned for it
  blkPc,        \* "idle" | "ready" | "done"
  \* reverse conversion of one inline node: convertAdfInlineToMdast
  revIn,        \* the ADF inline node
  revOut,       \* the mdast node returned
  revPc,        \* "idle" | "ready" | "done"
  \* postProcessInlineCards on the content of one paragraph
  cardKids,     \* originalChildren, the mdast children of the paragraph
  cardIn,       \* content, the ADF nodes convertMdastInlineNodes gave
  cardOut,      \* the nodes returned
  cardPc        \* "idle" | "ready" | "done"

varsScan == <<content, remaining, nodes, spans, scanPc>>
varsMark == <<mdIn, adfOut, markPc>>
varsFence == <<fenceIn, fenceTree, hasChanges, passCount, replaced, fencePc>>
varsCons == <<consIn, consOut, consI, consPc>>
varsMeta == <<metaNode, metaComment, metaParsed, metaOut, metaPc>>
varsEng ==
  <<engInput, engStrict, engAsync, engFault, engMd, engTree, engAdf, engResult, engSync, engPc,
    engCalls, engCaller>>
varsAnn == <<annIn, annTree, annCaller, annTodo, annFound, annRemove, annPc>>
varsSpan == <<spanIn, spanKids, spanI, spanPc>>
varsDate == <<dateText, dateNode, lenientDates, datePc>>
varsBlk == <<blkPath, blkIn, blkOut, blkPc>>
varsRev == <<revIn, revOut, revPc>>
varsCard == <<cardKids, cardIn, cardOut, cardPc>>
vars ==
  <<varsScan, varsMark, varsFence, varsCons, varsMeta, varsEng, varsAnn, varsSpan, varsDate,
    varsBlk, varsRev, varsCard>>

\* what the actions of one component leave alone
FrameScan ==
  UNCHANGED <<varsMark, varsFence, varsCons, varsMeta, varsEng, varsAnn, varsSpan, varsDate,
              varsBlk, varsRev, varsCard>>
FrameMark ==
  UNCHANGED <<varsScan, varsFence, varsCons, varsMeta, varsEng, varsAnn, varsSpan, varsDate,
              varsBlk, varsRev, varsCard>>
FrameFence ==
  UNCHANGED <<varsScan, varsMark, varsCons, varsMeta, varsEng, varsAnn, varsSpan, varsDate,
              varsBlk, varsRev, varsCard>>
FrameCons ==
  UNCHANGED <<varsScan, varsMark, varsFence, varsMeta, varsEng, varsAnn, varsSpan, varsDate,
              varsBlk, varsRev, varsCard>>
FrameMeta ==
  UNCHANGED <<varsScan, varsMark, varsFence, varsCons, varsEng, varsAnn, varsSpan, varsDate,
              varsBlk, varsRev, varsCard>>
FrameEng ==
  UNCHANGED <<varsScan, varsMark, varsFence, varsCons, varsMeta, varsAnn, varsSpan, varsDate,
              varsBlk, varsRev, varsCard>>
FrameSpan ==
  UNCHANGED <<varsScan, varsMark, varsFence, varsCons, varsMeta, varsEng, varsAnn, varsDate,
              varsBlk, varsRev, varsCard>>
FrameDate ==
  UNCHANGED <<varsScan, varsMark, varsFence, varsCons, varsMeta, varsEng, varsAnn, varsSpan,
              varsBlk, varsRev, varsCard>>
FrameBlk ==
  UNCHANGED <<varsScan, varsMark, varsFence, varsCons, varsMeta, varsEng, varsAnn, varsSpan,
              varsDate, varsRev, varsCard>>
FrameRev ==
  UNCHANGED <<varsScan, varsMark, varsFence, varsCons, varsMeta, varsEng, varsAnn, varsSpan,
              varsDate, varsBlk, varsCard>>
FrameCard ==
  UNCHANGED <<varsScan, varsMark, varsFence, varsCons, varsMeta, varsEng, varsAnn, varsSpan,
              varsDate, varsBlk, varsRev>>
FrameAnn ==
  UNCHANGED <<varsScan, varsMark, varsFence, varsCons, varsMeta, varsEng, varsSpan, varsDate,
              varsBlk, varsRev, varsCard>>

(***************************************************************************)
(* Bounds of the model.                                                    *)
(***************************************************************************)
MaxPieces == 3     \* pieces concatenated into one scanned text run
MaxNest == 3       \* wrappers (strong/emphasis/delete/link) around a leaf run
MaxLeaves == 2     \* leaves inside the innermost wrapper
MaxLines == 3      \* lines of a free-form markdown document given to the resolver
MaxDepth == 6      \* fenced containers nested inside one another
MaxBlocks == 4     \* top-level blocks given to the nesting consolidation
MaxAttrs == 2      \* attributes of a node that is written out with an annotation
MaxMdLines == 3    \* lines of a markdown string given to the engine
MaxKids == 3       \* children of the root of a tree given to processMetadataComments
MaxCalls == 3      \* calls of convert made on one engine
MaxAnnotations == 2 \* annotations written in front of one node
MaxSpans == 3      \* pieces (a span, a text, a lone comment) in one paragraph

(***************************************************************************)
(* Generic helpers.                                                        *)
(***************************************************************************)
Min(S) == CHOOSE x \in S : \A y \in S : x <= y
Max(S) == CHOOSE x \in S : \A y \in S : y <= x

RECURSIVE Flatten(_)
Flatten(ss) == IF ss = <<>> THEN <<>> ELSE Head(ss) \o Flatten(Tail(ss))

\* s.substring(a, b) with 0-based, end-exclusive offsets, 0 <= a <= b <= Len(s)
Substring(s, a, b) == SubSeq(s, a + 1, b)

\* the literal lit occurs in s at 1-based position i
IsAt(lit, s, i) ==
  /\ i >= 1
  /\ i + Len(lit) - 1 <= Len(s)
  /\ \A k \in 1..Len(lit) : s[i + k - 1] = lit[k]

\* smallest j >= from with s[j] \in cs, or 0
FirstIn(s, from, cs) ==
  LET js == {j \in from..Len(s) : s[j] \in cs}
  IN IF js = {} THEN 0 ELSE Min(js)

\* smallest j >= from with s[j] \notin cs, or Len(s)+1
FirstNotIn(s, from, cs) ==
  LET js == {j \in from..Len(s) : s[j] \notin cs}
  IN IF js = {} THEN Len(s) + 1 ELSE Min(js)

Range(s) == {s[k] : k \in 1..Len(s)}

Digit == {"0", "1", "2", "3", "4", "5", "6", "7", "8", "9"}
Letter == {"a", "b", "c", "d", "e", "f", "g", "h", "i", "j", "k", "l", "m",
           "n", "o", "p", "q", "r", "s", "t", "u", "v", "w", "x", "y", "z",
           "A", "B", "C", "D", "E", "F", "G", "H", "I", "J", "K", "L", "M",
           "N", "O", "P", "Q", "R", "S", "T", "U", "V", "W", "X", "Y", "Z"}
\* the class \w
WordChar == Letter \cup Digit \cup {"_"}
\* the class [\w-]
WordOrDash == WordChar \cup {"-"}
\* the class [a-zA-Z0-9_+-]
EmojiNameChar == Letter \cup Digit \cup {"_", "+", "-"}
\* the class \s (the members the model's strings use)
SpaceChar == {" ", "\n", "\t"}

DigitVal(c) ==
  CASE c = "0" -> 0 [] c = "1" -> 1 [] c = "2" -> 2 [] c = "3" -> 3
    [] c = "4" -> 4 [] c = "5" -> 5 [] c = "6" -> 6 [] c = "7" -> 7
    [] c = "8" -> 8 [] c = "9" -> 9

DigitChar(n) ==
  CASE n = 0 -> "0" [] n = 1 -> "1" [] n = 2 -> "2" [] n = 3 -> "3"
    [] n = 4 -> "4" [] n = 5 -> "5" [] n = 6 -> "6" [] n = 7 -> "7"
    [] n = 8 -> "8" [] n = 9 -> "9"

\* the value of a non-empty string of decimal digits
RECURSIVE DigitsVal(_)
DigitsVal(ds) ==
  IF ds = <<>> THEN 0
  ELSE DigitsVal(SubSeq(ds, 1, Len(ds) - 1)) * 10 + DigitVal(ds[Len(ds)])

\* Number.prototype.toString for a non-negative integer
RECURSIVE NatToString(_)
NatToString(n) ==
  IF n < 10 THEN <<DigitChar(n)>>
  ELSE NatToString(n \div 10) \o <<DigitChar(n % 10)>>


(***************************************************************************)
(* ADF inline nodes.  A node is a record [type, text, attrs, marks]; an    *)
(* absent text is <<>>, absent attrs is NoAttrs, absent marks is <<>>.     *)
(***************************************************************************)
NoAttrs == <<>>
Mark(t, a) == [type |-> t, attrs |-> a]
TextNode(t, ms) == [type |-> "text", text |-> t, attrs |-> NoAttrs, marks |-> ms]
TokenNode(ty, a) == [type |-> ty, text |-> <<>>, attrs |-> a, marks |-> <<>>]

(***************************************************************************)
(* The emoji name table (utils/emoji-mapping.js, getEmojiData and          *)
(* createFallbackEmojiData): a known name resolves to its character, an    *)
(* unknown one falls back to the literal name with no id.                  *)
(***************************************************************************)
GetEmojiData(shortName) ==
  IF shortName = <<"o", "k">>
    THEN [id |-> <<>>, text |-> <<"OK-SIGN">>]
    ELSE [id |-> <<>>, text |-> shortName]

(***************************************************************************)
(* new Date(s + 'T00:00:00.000Z').getTime().toString() for s = YYYY-MM-DD  *)
(* naming a calendar day from 1970-01-01 on: the day count times 86400000. *)
(* The product is written as (days * 864) followed by five zeros, which    *)
(* keeps every intermediate value small.                                   *)
(***************************************************************************)
IsLeap(y) == (y % 4 = 0 /\ y % 100 # 0) \/ y % 400 = 0
DaysInMonth(y, m) ==
  CASE m \in {1, 3, 5, 7, 8, 10, 12} -> 31
    [] m \in {4, 6, 9, 11} -> 30
    [] m = 2 -> IF IsLeap(y) THEN 29 ELSE 28
    [] OTHER -> 0
\* days from 1970-01-01 to the first day of the year (Gregorian), negative
\* for a year before 1970
RECURSIVE DaysBeforeYear(_)
DaysBeforeYear(y) ==
  IF y = 1970 THEN 0
  ELSE IF y > 1970 THEN DaysBeforeYear(y - 1) + (IF IsLeap(y - 1) THEN 366 ELSE 365)
  ELSE DaysBeforeYear(y + 1) - (IF IsLeap(y) THEN 366 ELSE 365)
RECURSIVE DaysBeforeMonth(_, _)
DaysBeforeMonth(y, m) ==
  IF m <= 1 THEN 0 ELSE DaysBeforeMonth(y, m - 1) + DaysInMonth(y, m - 1)

\* Number.prototype.toString for an integer number of days, in milliseconds
MillisToString(days) ==
  IF days = 0 THEN <<"0">>
  ELSE IF days > 0 THEN NatToString(days * 864) \o <<"0", "0", "0", "0", "0">>
  ELSE <<"-">> \o NatToString((0 - days) * 864) \o <<"0", "0", "0", "0", "0">>

\* new Date(dateString + 'T00:00:00.000Z').getTime().toString(): a month
\* outside 01..12 or a day outside 01..31 is an invalid date in every build;
\* a day past the end of its month is one in some builds and rolls over into
\* the next month in the others
DateTimestamp(ds) ==
  LET y == DigitsVal(SubSeq(ds, 1, 4))
      m == DigitsVal(SubSeq(ds, 6, 7))
      d == DigitsVal(SubSeq(ds, 9, 10))
  IN IF m < 1 \/ m > 12 \/ d < 1 \/ d > 31 \/ (d > DaysInMonth(y, m) /\ ~lenientDates)
       THEN <<"N", "a", "N">>
       ELSE MillisToString(DaysBeforeYear(y) + DaysBeforeMonth(y, m) + (d - 1))

(***************************************************************************)
(* The seven patterns of findNextSocialElement.  XAt(s, i) is the match of *)
(* pattern X that starts at 1-based position i of s, a record              *)
(*   [ok, index, len, lead, node]                                          *)
(* index = match.index (0-based), len = match[0].length, lead = the length *)
(* of the part of match[0] that precedes the token's own syntax (only the  *)
(* bare date pattern has one: its boundary group), node = pattern.process. *)
(***************************************************************************)
NoMatch == [ok |-> FALSE, index |-> 0, len |-> 0, lead |-> 0, node |-> TokenNode("none", NoAttrs)]
Match(i, n, ld, nd) == [ok |-> TRUE, index |-> i - 1, len |-> n, lead |-> ld, node |-> nd]

\* String.prototype.match without the g flag: the leftmost match
Leftmost(s, At(_, _)) ==
  LET is == {i \in 1..Len(s) : At(s, i).ok}
  IN IF is = {} THEN NoMatch ELSE At(s, Min(is))

\* \d{4}-\d{2}-\d{2} at position i
IsDateAt(s, i) ==
  /\ i >= 1
  /\ i + 9 <= Len(s)
  /\ \A k \in {0, 1, 2, 3, 5, 6, 8, 9} : s[i + k] \in Digit
  /\ s[i + 4] = "-"
  /\ s[i + 7] = "-"

\* /\{user:([^}]+)\}/
MentionAt(s, i) ==
  LET open == <<"{", "u", "s", "e", "r", ":">>
      j == FirstIn(s, i + 6, {"}"})
  IN IF IsAt(open, s, i) /\ j > i + 6
       THEN LET id == SubSeq(s, i + 6, j - 1)
            IN Match(i, j - i + 1, 0,
                 TokenNode("mention",
                   [id |-> id, text |-> <<"@">> \o id, userType |-> "DEFAULT"]))
       ELSE NoMatch

\* /:([a-zA-Z0-9_+-]+):/
EmojiAt(s, i) ==
  LET j == FirstNotIn(s, i + 1, EmojiNameChar)
  IN IF i <= Len(s) /\ s[i] = ":" /\ j > i + 1 /\ j <= Len(s) /\ s[j] = ":"
       THEN LET shortName == SubSeq(s, i + 1, j - 1)
                emojiData == GetEmojiData(shortName)
            IN Match(i, j - i + 1, 0,
                 TokenNode("emoji",
                   [shortName |-> <<":">> \o shortName \o <<":">>,
                    id |-> emojiData.id, text |-> emojiData.text]))
       ELSE NoMatch

\* /\{date:(\d{4}-\d{2}-\d{2})\}/
DateAt(s, i) ==
  LET open == <<"{", "d", "a", "t", "e", ":">>
  IN IF IsAt(open, s, i) /\ IsDateAt(s, i + 6) /\ IsAt(<<"}">>, s, i + 16)
       THEN Match(i, 17, 0,
              TokenNode("date", [timestamp |-> DateTimestamp(SubSeq(s, i + 6, i + 15))]))
       ELSE NoMatch

\* /(^|[^\w-])(\d{4}-\d{2}-\d{2})(?![\w-])/
\* At position i the first alternative (^) is tried first, then a boundary
\* character at i followed by the date at i + 1.
BareDateAt(s, i) ==
  LET ahead(e) == e > Len(s) \/ s[e] \notin WordOrDash
  IN IF i = 1 /\ IsDateAt(s, 1) /\ ahead(11)
       THEN Match(1, 10, 0,
              TokenNode("date", [timestamp |-> DateTimestamp(SubSeq(s, 1, 10))]))
     ELSE IF i <= Len(s) /\ s[i] \notin WordOrDash
             /\ IsDateAt(s, i + 1) /\ ahead(i + 11)
       THEN Match(i, 11, 1,
              TokenNode("date", [timestamp |-> DateTimestamp(SubSeq(s, i + 1, i + 10))]))
       ELSE NoMatch

ValidColors == {<<"n", "e", "u", "t", "r", "a", "l">>, <<"p", "u", "r", "p", "l", "e">>,
                <<"b", "l", "u", "e">>, <<"r", "e", "d">>,
                <<"y", "e", "l", "l", "o", "w">>, <<"g", "r", "e", "e", "n">>}

\* /\{status:([^|}]+)(?:\|color:([^}]*))?\}/
StatusAt(s, i) ==
  LET open == <<"{", "s", "t", "a", "t", "u", "s", ":">>
      sep == <<"|", "c", "o", "l", "o", "r", ":">>
      j == FirstIn(s, i + 8, {"|", "}"})
      k == FirstIn(s, j + 7, {"}"})
      neutral == <<"n", "e", "u", "t", "r", "a", "l">>
      final(c) == IF c # <<>> /\ c \in ValidColors THEN c ELSE neutral
  IN IF ~(IsAt(open, s, i) /\ j > i + 8) THEN NoMatch
     ELSE IF s[j] = "}"
       THEN Match(i, j - i + 1, 0,
              TokenNode("status", [text |-> SubSeq(s, i + 8, j - 1), color |-> neutral]))
     ELSE IF IsAt(sep, s, j) /\ k > 0
       THEN Match(i, k - i + 1, 0,
              TokenNode("status", [text |-> SubSeq(s, i + 8, j - 1),
                                   color |-> final(SubSeq(s, j + 7, k - 1))]))
       ELSE NoMatch

\* /\[([^\]]*)\]\(card:([^)]+)\)/
InlineCardAt(s, i) ==
  LET mid == <<"]", "(", "c", "a", "r", "d", ":">>
      j == FirstIn(s, i + 1, {"]"})
      k == FirstIn(s, j + 7, {")"})
  IN IF i <= Len(s) /\ s[i] = "[" /\ j > 0 /\ IsAt(mid, s, j) /\ k > j + 7
       THEN Match(i, k - i + 1, 0,
              TokenNode("inlineCard", [url |-> SubSeq(s, j + 7, k - 1)]))
       ELSE NoMatch

\* /!\[([^\]]*)\]\(media:([^)]+)\)/
MediaReferenceAt(s, i) ==
  LET mid == <<"]", "(", "m", "e", "d", "i", "a", ":">>
      j == FirstIn(s, i + 2, {"]"})
      k == FirstIn(s, j + 8, {")"})
  IN IF IsAt(<<"!", "[">>, s, i) /\ j > 0 /\ IsAt(mid, s, j) /\ k > j + 8
       THEN Match(i, k - i + 1, 0,
              TokenNode("mediaReference",
                [id |-> SubSeq(s, j + 8, k - 1), alt |-> SubSeq(s, i + 2, j - 1),
                 mediaType |-> "file", collection |-> <<>>]))
       ELSE NoMatch

\* content.match(pattern.regex) for the patterns, in the order of the list
PatternMatches(s) ==
  << Leftmost(s, MentionAt), Leftmost(s, EmojiAt), Leftmost(s, DateAt),
     Leftmost(s, BareDateAt), Leftmost(s, StatusAt), Leftmost(s, InlineCardAt),
     Leftmost(s, MediaReferenceAt) >>


(***************************************************************************)
(* findNextSocialElement: every pattern is matched against the content and *)
(* a match replaces the earliest one only when its index is strictly       *)
(* smaller.  The result carries beforeText, node and afterText; index, len *)
(* and lead are kept for the properties.                                   *)
(***************************************************************************)
RECURSIVE EarliestFrom(_, _, _)
EarliestFrom(ms, k, earliest) ==
  IF k > Len(ms) THEN earliest
  ELSE IF ms[k].ok /\ (~earliest.ok \/ ms[k].index < earliest.index)
    THEN EarliestFrom(ms, k + 1, ms[k])
    ELSE EarliestFrom(ms, k + 1, earliest)

SocialMatch(s, m) ==
  [ok |-> m.ok, index |-> m.index, len |-> m.len, lead |-> m.lead,
   beforeText |-> IF m.ok THEN Substring(s, 0, m.index) ELSE <<>>,
   node |-> m.node,
   afterText |-> IF m.ok THEN Substring(s, m.index + m.len, Len(s)) ELSE <<>>]

\* a plausible slip: the first pattern of the list that matches wins
FindNextSocialElement_FirstPattern(s) ==
  LET ms == PatternMatches(s)
      ks == {k \in 1..Len(ms) : ms[k].ok}
  IN SocialMatch(s, IF ks = {} THEN NoMatch ELSE ms[Min(ks)])

FindNextSocialElement(s) ==
  SocialMatch(s, EarliestFrom(PatternMatches(s), 1, NoMatch))

(***************************************************************************)
(* parseInlineMarksRecursively on a run that holds no inline mark syntax   *)
(* (no star, backtick, <!-- and no [text](url)): the run comes back as one *)
(* text leaf.  The scanned runs of this model hold none                    *)
(* (NoInlineMarkSyntax); BACKTICK stands for the backtick character.       *)
(***************************************************************************)
\* /\[([^\]]+)\]\(([^)]+)\)/ at position i
LinkAt(s, i) ==
  LET j == FirstIn(s, i + 1, {"]"})
      k == FirstIn(s, j + 2, {")"})
  IN i <= Len(s) /\ s[i] = "[" /\ j > i + 1 /\ IsAt(<<"]", "(">>, s, j) /\ k > j + 2

NoInlineMarkSyntax(s) ==
  /\ \A i \in 1..Len(s) : s[i] \notin {"*", "BACKTICK", "<"}
  /\ \A i \in 1..Len(s) : ~LinkAt(s, i)

ParseInlineMarksRecursively(s) ==
  IF s = <<>> THEN <<>> ELSE <<TextNode(s, <<>>)>>

(***************************************************************************)
(* parseInlineContentWithSocialElements as a pure function (used by the    *)
(* Mark Resolver); the scanner specification below runs the same loop one  *)
(* iteration per step.                                                     *)
(***************************************************************************)
RECURSIVE ScanLoop(_, _)
ScanLoop(rem, acc) ==
  IF Len(rem) = 0 THEN acc
  ELSE LET socialMatch == FindNextSocialElement(rem)
       IN IF socialMatch.ok
            THEN ScanLoop(socialMatch.afterText,
                   acc \o ParseInlineMarksRecursively(socialMatch.beforeText)
                       \o <<socialMatch.node>>)
            ELSE acc \o ParseInlineMarksRecursively(rem)

ParseInlineContentWithSocialElements(s) ==
  IF s = <<>> THEN <<>> ELSE ScanLoop(s, <<>>)


(***************************************************************************)
(* Mark Resolver: convertMdastInlineNodes, convertMdastInlineNode and      *)
(* wrapWithMark.  An mdast inline node is a record                         *)
(*   [type, value, children, url]                                          *)
(* (text and inlineCode carry value, the wrappers carry children, link     *)
(* carries url).  The text nodes of the model carry no span metadata.      *)
(***************************************************************************)
MdText(v) == [type |-> "text", value |-> v, children |-> <<>>, url |-> <<>>]
MdInlineCode(v) == [type |-> "inlineCode", value |-> v, children |-> <<>>, url |-> <<>>]
MdWrap(t, u, cs) == [type |-> t, value |-> <<>>, children |-> cs, url |-> u]

MarkableNodeTypes == {"text", "mention", "emoji", "status", "date", "inlineCard"}

\* childNodes.map(...) of wrapWithMark: the mark is pushed onto every markable node
ApplyMark(childNodes, mark) ==
  [k \in 1..Len(childNodes) |->
     IF childNodes[k].type \in MarkableNodeTypes
       THEN [childNodes[k] EXCEPT !.marks = Append(@, mark)]
       ELSE childNodes[k]]

CardPrefix == <<"c", "a", "r", "d", ":">>

RECURSIVE ConvertMdastInlineNodes(_)
RECURSIVE ConvertMdastInlineNode(_)
RECURSIVE WrapWithMark(_, _, _)

WrapWithMark(children, markType, attrs) ==
  ApplyMark(ConvertMdastInlineNodes(children), Mark(markType, attrs))

\* the result is always given as a list (a single node is a list of one)
ConvertMdastInlineNode(node) ==
  CASE node.type = "text" -> ParseInlineContentWithSocialElements(node.value)
    [] node.type = "strong" -> WrapWithMark(node.children, "strong", NoAttrs)
    [] node.type = "emphasis" -> WrapWithMark(node.children, "em", NoAttrs)
    [] node.type = "inlineCode" -> <<TextNode(node.value, <<Mark("code", NoAttrs)>>)>>
    [] node.type = "delete" -> WrapWithMark(node.children, "strike", NoAttrs)
    [] node.type = "link" ->
         IF IsAt(CardPrefix, node.url, 1)
           THEN <<TokenNode("inlineCard", [url |-> SubSeq(node.url, 6, Len(node.url))])>>
           ELSE WrapWithMark(node.children, "link", [href |-> node.url])
    [] node.type = "break" -> <<TokenNode("hardBreak", NoAttrs)>>
    [] OTHER -> <<TextNode(node.value, <<>>)>>

ConvertMdastInlineNodes(ns) ==
  IF ns = <<>> THEN <<>>
  ELSE ConvertMdastInlineNode(Head(ns)) \o ConvertMdastInlineNodes(Tail(ns))

(***************************************************************************)
(* Inputs of the Mark Resolver: a run of 1..MaxLeaves leaves wrapped in    *)
(* 0..MaxNest nested wrappers.                                             *)
(***************************************************************************)
SeqsUpTo(S, lo, hi) == UNION {[1..n -> S] : n \in lo..hi}

MdLeaves ==
  { MdText(<<"t">>), MdInlineCode(<<"c">>),
    MdText(<<"{", "u", "s", "e", "r", ":", "a", "}">>) }
MdWrappers ==
  { [type |-> "strong", url |-> <<>>], [type |-> "emphasis", url |-> <<>>],
    [type |-> "delete", url |-> <<>>], [type |-> "link", url |-> <<"u">>],
    [type |-> "link", url |-> <<"c", "a", "r", "d", ":", "u">>] }

\* ws[1] is the outermost wrapper
RECURSIVE Nest(_, _)
Nest(ws, leaves) ==
  IF ws = <<>> THEN leaves
  ELSE <<MdWrap(Head(ws).type, Head(ws).url, Nest(Tail(ws), leaves))>>

MarkInputs ==
  { Nest(ws, ls) : ws \in SeqsUpTo(MdWrappers, 0, MaxNest),
                   ls \in SeqsUpTo(MdLeaves, 1, MaxLeaves) }


(***************************************************************************)
(* Fence Block Resolver.  Markdown is a sequence of lines; a line is a     *)
(* record [k, info]:                                                       *)
(*   k = "tilde"    a fence line of three tildes followed by info          *)
(*   k = "backtick" a fence line of three backticks followed by info       *)
(*   k = "text"     a line of plain text                                   *)
(*   k = "blank"    an empty line                                          *)
(* An mdast node is a record [type, lang, nodeType, value, children, src]: *)
(* code carries lang and value, text carries value, paragraph and adfFence *)
(* carry children, adfFence carries nodeType.  An absent value is <<>>.    *)
(* src is the inner text an adfFence node's children were parsed from; the *)
(* code does not keep it, the properties read it.  The attributes of a     *)
(* fence line (meta, parseAdfLanguageString) are left out.                 *)
(***************************************************************************)
Ln(k, info) == [k |-> k, info |-> info]

MdNode(t, lang, nt, v, cs, src) ==
  [type |-> t, lang |-> lang, nodeType |-> nt, value |-> v, children |-> cs, src |-> src]
CodeNode(lang, v) == MdNode("code", lang, "", v, <<>>, <<>>)
TextLeaf(v) == MdNode("text", "", "", v, <<>>, <<>>)
Paragraph(cs) == MdNode("paragraph", "", "", <<>>, cs, <<>>)
AdfFence(nt, v, cs, src) == MdNode("adfFence", "", nt, v, cs, src)

\* a plausible slip: one kind missing from the set
adfBlockTypes_NoMediaGroup == {"panel", "expand", "nestedExpand", "mediaSingle"}

adfBlockTypes == {"panel", "expand", "nestedExpand", "mediaSingle", "mediaGroup"}
maxPasses == 5

(***************************************************************************)
(* The baseline markdown parser (remark-parse: processor.parse and         *)
(* runSync), restricted to what the resolver depends on: a fence line      *)
(* opens a code block that runs to the first bare fence line of the same   *)
(* character, or to the end of the text; text lines that follow one        *)
(* another form one paragraph; blank lines separate blocks.  The parser is *)
(* total.                                                                  *)
(***************************************************************************)
RECURSIVE ParseFrom(_, _)
ParseFrom(ls, i) ==
  IF i > Len(ls) THEN <<>>
  ELSE IF ls[i].k \in {"tilde", "backtick"}
    THEN LET j == FirstIn(ls, i + 1, {Ln(ls[i].k, "")})
             close == IF j = 0 THEN Len(ls) + 1 ELSE j
         IN <<CodeNode(ls[i].info, SubSeq(ls, i + 1, close - 1))>>
              \o ParseFrom(ls, close + 1)
  ELSE IF ls[i].k = "blank" THEN ParseFrom(ls, i + 1)
  ELSE LET e == FirstNotIn(ls, i, {l \in Range(ls) : l.k = "text"})
       IN <<Paragraph(<<TextLeaf(SubSeq(ls, i, e - 1))>>)>> \o ParseFrom(ls, e)

Parse(ls) == ParseFrom(ls, 1)

(***************************************************************************)
(* preprocessNestedAdfBlocks and processNestedAdfContent.                  *)
(***************************************************************************)
\* /^~~~(panel|expand|mediaSingle|mediaGroup|nestedExpand)([^\n]*)/gm and
\* /^~~~$/gm: the tilde fence lines of the content become backtick fence lines
ProcessNestedAdfContent(ls) ==
  [k \in 1..Len(ls) |->
     IF ls[k].k = "tilde" /\ (ls[k].info \in adfBlockTypes \/ ls[k].info = "")
       THEN Ln("backtick", ls[k].info)
       ELSE ls[k]]

\* /^~~~(expand|panel|mediaSingle|mediaGroup|nestedExpand)([^\n]*)\n([\s\S]*?)\n~~~$/gm
\* matches from an opening line i to the first bare tilde line at i + 2 or
\* later; the replacement goes on after the match.
RECURSIVE PreprocessFrom(_, _)
PreprocessFrom(ls, i) ==
  IF i > Len(ls) THEN <<>>
  ELSE LET j == FirstIn(ls, i + 2, {Ln("tilde", "")})
       IN IF ls[i].k = "tilde" /\ ls[i].info \in adfBlockTypes /\ j > 0
            THEN <<ls[i]>> \o ProcessNestedAdfContent(SubSeq(ls, i + 1, j - 1))
                   \o <<ls[j]>> \o PreprocessFrom(ls, j + 1)
            ELSE <<ls[i]>> \o PreprocessFrom(ls, i + 1)

PreprocessNestedAdfBlocks(ls) == PreprocessFrom(ls, 1)

(***************************************************************************)
(* processNode of postProcessAdfFenceBlocks.                               *)
(***************************************************************************)
\* String.prototype.trim on lines: the blank lines at both ends go
Trim(ls) ==
  LET ks == {k \in 1..Len(ls) : ls[k].k # "blank"}
  IN IF ks = {} THEN <<>> ELSE SubSeq(ls, Min(ks), Max(ks))

\* adfFencePattern.test(textContent.trim()):
\* /^~~~(panel|expand|nestedExpand|mediaSingle|mediaGroup)([^\n]*)\n([\s\S]*?)\n~~~$/
AdfFencePattern(ls) ==
  /\ Len(ls) >= 3
  /\ ls[1].k = "tilde"
  /\ ls[1].info \in adfBlockTypes
  /\ ls[Len(ls)] = Ln("tilde", "")

IsAdfCode(node) == node.type = "code" /\ node.lang # "" /\ node.lang \in adfBlockTypes

IsAdfText(node) ==
  node.type = "text" /\ node.value # <<>> /\ AdfFencePattern(Trim(node.value))

\* the code block becomes an adfFence node whose children are its parsed value
CodeToFence(node) ==
  AdfFence(node.lang, IF node.lang # "mediaGroup" THEN <<>> ELSE node.value,
           Parse(node.value), node.value)

\* the text node becomes an adfFence node whose children are the parsed content
TextToFence(node) ==
  LET t == Trim(node.value)
      inner == SubSeq(t, 2, Len(t) - 1)
  IN AdfFence(t[1].info, <<>>, Parse(inner), inner)

\* what the first two branches of processNode make of the node
Convert(node) ==
  IF IsAdfCode(node) THEN CodeToFence(node)
  ELSE IF IsAdfText(node) THEN TextToFence(node)
  ELSE node

RECURSIVE ProcessNode(_)
RECURSIVE ProcessNodes(_)
RECURSIVE ProcessNode_OneLayer(_)
RECURSIVE Replacements(_)

\* a plausible reading: a pass does not descend into the children it has
\* just parsed, so that every pass resolves one layer
ProcessNode_OneLayer(node) ==
  IF IsAdfCode(node) \/ IsAdfText(node) THEN Convert(node)
  ELSE [node EXCEPT !.children = ProcessNodes(@)]

\* the node after the visit: converted where it is fence syntax, and then
\* its children visited, those just parsed included
ProcessNode(node) == [Convert(node) EXCEPT !.children = ProcessNodes(@)]

\* children.forEach(processNode)
ProcessNodes(ns) == [k \in 1..Len(ns) |-> ProcessNode(ns[k])]

\* the number of times a visit of these nodes sets hasChanges = true
Replacements(ns) ==
  IF ns = <<>> THEN 0
  ELSE (IF IsAdfCode(Head(ns)) \/ IsAdfText(Head(ns)) THEN 1 ELSE 0)
         + Replacements(Convert(Head(ns)).children)
         + Replacements(Tail(ns))

\* while (hasChanges && passCount < maxPasses)
LoopGuard_IgnoreChanges(hc, pc) == pc < maxPasses

LoopGuard(hc, pc) == hc /\ pc < maxPasses

(***************************************************************************)
(* Annotations (utils/metadata-comments.ts).  An attribute value is a      *)
(* record [t, s, n, b] with t = "str" (s the string), "num" (n the number) *)
(* or "bool" (b); an attribute map is a sequence of [key, val] records with *)
(* distinct keys, in insertion order.  Keys, node types and comments are   *)
(* strings, that is sequences of characters.                               *)
(***************************************************************************)
StrVal(x) == [t |-> "str", s |-> x, n |-> 0, b |-> FALSE]
NumVal(n) == [t |-> "num", s |-> <<>>, n |-> n, b |-> FALSE]
BoolVal(b) == [t |-> "bool", s |-> <<>>, n |-> 0, b |-> b]
Attr(k, x) == [key |-> k, val |-> x]

Keys(attrs) == {attrs[k].key : k \in 1..Len(attrs)}
Lookup(attrs, key) == attrs[CHOOSE k \in 1..Len(attrs) : attrs[k].key = key].val
\* the attribute maps agree as maps: the same keys with the same values
SameAttrs(a, b) ==
  Keys(a) = Keys(b) /\ \A key \in Keys(a) : Lookup(a, key) = Lookup(b, key)

\* attrs[key] = x
SetAttr(attrs, key, x) ==
  IF key \in Keys(attrs)
    THEN [k \in 1..Len(attrs) |-> IF attrs[k].key = key THEN Attr(key, x) ELSE attrs[k]]
    ELSE Append(attrs, Attr(key, x))

\* { ...a, ...b }
RECURSIVE MergeAttrs(_, _)
MergeAttrs(a, b) ==
  IF b = <<>> THEN a
  ELSE MergeAttrs(SetAttr(a, Head(b).key, Head(b).val), Tail(b))

TrueText == <<"t", "r", "u", "e">>
FalseText == <<"f", "a", "l", "s", "e">>

\* the template literal ${value}
ToText(x) ==
  CASE x.t = "str" -> x.s
    [] x.t = "num" -> NatToString(x.n)
    [] x.t = "bool" -> IF x.b THEN TrueText ELSE FalseText

TrimSpaces(str) ==
  LET ks == {k \in 1..Len(str) : str[k] \notin SpaceChar}
  IN IF ks = {} THEN <<>> ELSE SubSeq(str, Min(ks), Max(ks))

\* Number(value) for the strings of the model (letters, digits, spaces and
\* punctuation other than sign, point and exponent): white space is trimmed,
\* the empty string is 0, a run of digits is its value, anything else is NaN
JsNumber(str) ==
  LET t == TrimSpaces(str)
  IN IF \A k \in 1..Len(t) : t[k] \in Digit
       THEN [nan |-> FALSE, n |-> DigitsVal(t)]
       ELSE [nan |-> TRUE, n |-> 0]

\* the value parseAttributeString stores for the text of a value
Coerce(value) ==
  IF value = TrueText THEN BoolVal(TRUE)
  ELSE IF value = FalseText THEN BoolVal(FALSE)
  ELSE IF JsNumber(value).nan THEN StrVal(value) ELSE NumVal(JsNumber(value).n)

T_heading == <<"h", "e", "a", "d", "i", "n", "g">>
T_paragraph == <<"p", "a", "r", "a", "g", "r", "a", "p", "h">>
T_panel == <<"p", "a", "n", "e", "l">>
T_table == <<"t", "a", "b", "l", "e">>
T_codeBlock == <<"c", "o", "d", "e", "B", "l", "o", "c", "k">>
T_orderedList == <<"o", "r", "d", "e", "r", "e", "d", "L", "i", "s", "t">>
T_media == <<"m", "e", "d", "i", "a">>
T_expand == <<"e", "x", "p", "a", "n", "d">>
T_cell == <<"c", "e", "l", "l">>
T_header == <<"h", "e", "a", "d", "e", "r">>
T_tableCell == <<"t", "a", "b", "l", "e", "C", "e", "l", "l">>
T_tableHeader == <<"t", "a", "b", "l", "e", "H", "e", "a", "d", "e", "r">>
K_id == <<"i", "d">>
K_level == <<"l", "e", "v", "e", "l">>
K_layout == <<"l", "a", "y", "o", "u", "t">>
K_panelType == <<"p", "a", "n", "e", "l", "T", "y", "p", "e">>
K_language == <<"l", "a", "n", "g", "u", "a", "g", "e">>
K_order == <<"o", "r", "d", "e", "r">>
K_alt == <<"a", "l", "t">>
K_isNumberColumnEnabled ==
  <<"i", "s", "N", "u", "m", "b", "e", "r", "C", "o", "l", "u", "m", "n",
    "E", "n", "a", "b", "l", "e", "d">>
K_closing == <<"c", "l", "o", "s", "i", "n", "g">>
V_default == <<"d", "e", "f", "a", "u", "l", "t">>

\* alwaysFiltered[nodeType] || []
AlwaysFiltered(nodeType) ==
  CASE nodeType = T_heading -> {K_level}
    [] nodeType = T_panel -> {K_panelType}
    [] nodeType = T_codeBlock -> {K_language}
    [] nodeType = T_orderedList -> {K_order}
    [] nodeType = T_media -> {K_alt}
    [] OTHER -> {}

\* defaultValues[nodeType] || {}
DefaultValues(nodeType) ==
  IF nodeType = T_table
    THEN <<Attr(K_isNumberColumnEnabled, BoolVal(FALSE)), Attr(K_layout, StrVal(V_default))>>
    ELSE <<>>

\* a plausible slip: a key that has a default is left out whatever its value
IsImplied_KeyOnly(nodeType, a) ==
  \/ a.key \in AlwaysFiltered(nodeType)
  \/ a.key \in Keys(DefaultValues(nodeType))

\* the attribute is left out of the annotation
IsImplied(nodeType, a) ==
  \/ a.key \in AlwaysFiltered(nodeType)
  \/ /\ a.key \in Keys(DefaultValues(nodeType))
     /\ Lookup(DefaultValues(nodeType), a.key) = a.val

FilterSignificantAttributes(nodeType, attrs) ==
  SelectSeq(attrs, LAMBDA a : ~IsImplied(nodeType, a))

\* entries.map(([key, value]) => key="value").join(' ')
RECURSIVE AttrsString(_)
AttrsString(attrs) ==
  IF attrs = <<>> THEN <<>>
  ELSE Head(attrs).key \o <<"=", "\"">> \o ToText(Head(attrs).val) \o <<"\"">>
         \o (IF Len(attrs) > 1 THEN <<" ">> ELSE <<>>) \o AttrsString(Tail(attrs))

CommentOpen == <<"<", "!", "-", "-">>
CommentClose == <<"-", "-", ">">>
AdfPrefix == <<"a", "d", "f", ":">>

GenerateMetadataComment(nodeType, attrs) ==
  LET significantAttrs == FilterSignificantAttributes(nodeType, attrs)
  IN IF attrs = <<>> \/ significantAttrs = <<>> THEN <<>>
     ELSE CommentOpen \o <<" ">> \o AdfPrefix \o nodeType \o <<" ">>
            \o AttrsString(significantAttrs) \o <<" ">> \o CommentClose

AttrMatch(e, k, v) == [ok |-> TRUE, end |-> e, key |-> k, value |-> v]
NoAttrMatch == [ok |-> FALSE, end |-> 0, key |-> <<>>, value |-> <<>>]

\* quotedRegex /(\w+)\s*=\s*"([^"]*)"/ matched at position i; end is the
\* position after the match
QuotedAt(str, i) ==
  LET keyEnd == FirstNotIn(str, i, WordChar)
      eq == FirstNotIn(str, keyEnd, SpaceChar)
      q1 == FirstNotIn(str, eq + 1, SpaceChar)
      q2 == FirstIn(str, q1 + 1, {"\""})
  IN IF /\ i <= Len(str) /\ keyEnd > i
        /\ eq <= Len(str) /\ str[eq] = "="
        /\ q1 <= Len(str) /\ str[q1] = "\""
        /\ q2 # 0
       THEN AttrMatch(q2 + 1, SubSeq(str, i, keyEnd - 1), SubSeq(str, q1 + 1, q2 - 1))
       ELSE NoAttrMatch

\* unquotedRegex /(\w+)\s*=\s*([^\s"]+)/ matched at position i
UnquotedAt(str, i) ==
  LET keyEnd == FirstNotIn(str, i, WordChar)
      eq == FirstNotIn(str, keyEnd, SpaceChar)
      v1 == FirstNotIn(str, eq + 1, SpaceChar)
      v2 == FirstIn(str \o <<" ">>, v1, SpaceChar \cup {"\""})
  IN IF /\ i <= Len(str) /\ keyEnd > i
        /\ eq <= Len(str) /\ str[eq] = "="
        /\ v1 <= Len(str) /\ v2 > v1
       THEN AttrMatch(v2, SubSeq(str, i, keyEnd - 1), SubSeq(str, v1, v2 - 1))
       ELSE NoAttrMatch

\* while ((match = quotedRegex.exec(attrString)) !== null) attrs[key] = ...
RECURSIVE QuotedPass(_, _, _)
QuotedPass(str, from, attrs) ==
  LET is == {i \in from..Len(str) : QuotedAt(str, i).ok}
      m == QuotedAt(str, Min(is))
  IN IF is = {} THEN attrs
     ELSE QuotedPass(str, m.end, SetAttr(attrs, m.key, Coerce(m.value)))

\* the second loop: a key the first loop or an earlier match has set is skipped
RECURSIVE UnquotedPass(_, _, _)
UnquotedPass(str, from, attrs) ==
  LET is == {i \in from..Len(str) : UnquotedAt(str, i).ok}
      m == UnquotedAt(str, Min(is))
  IN IF is = {} THEN attrs
     ELSE UnquotedPass(str, m.end,
                       IF m.key \in Keys(attrs) THEN attrs
                       ELSE SetAttr(attrs, m.key, Coerce(m.value)))

ParseAttributeString(attrString) ==
  UnquotedPass(attrString, 1, QuotedPass(attrString, 1, <<>>))

\* the prefix ^<!--\s*adf:([a-zA-Z][a-zA-Z0-9]*) of the four patterns (with a
\* slash before adf: in the closing one); rest is the position after the type
CommentHead(value, closing) ==
  LET p == FirstNotIn(value, Len(CommentOpen) + 1, SpaceChar)
      lit == IF closing THEN <<"/">> \o AdfPrefix ELSE AdfPrefix
      n == p + Len(lit)
  IN IF /\ IsAt(CommentOpen, value, 1) /\ IsAt(lit, value, p)
        /\ n <= Len(value) /\ value[n] \in Letter
       THEN [ok |-> TRUE, nodeType |-> SubSeq(value, n, FirstNotIn(value, n, Letter \cup Digit) - 1),
             rest |-> FirstNotIn(value, n, Letter \cup Digit)]
       ELSE [ok |-> FALSE, nodeType |-> <<>>, rest |-> 0]

\* the suffix \s*-->$ matches from position i on
CommentTail(value, i) ==
  /\ i <= Len(value) - 2
  /\ IsAt(CommentClose, value, Len(value) - 2)
  /\ \A k \in i..(Len(value) - 3) : value[k] \in SpaceChar

\* METADATA_PATTERNS.withAttrsJson after the prefix: \s+attrs='({.*?})'\s*-->$ ;
\* the result is the captured payload, or <<>> when there is no match
JsonLiteral == <<"a", "t", "t", "r", "s", "=", "'", "{">>
WithAttrsJson(value, r) ==
  LET w == FirstNotIn(value, r, SpaceChar)
      b == w + Len(JsonLiteral) - 1
      js == {j \in (b + 1)..Len(value) :
               /\ IsAt(<<"}", "'">>, value, j)
               /\ CommentTail(value, j + 2)
               /\ \A k \in (b + 1)..(j - 1) : value[k] # "\n"}
  IN IF w > r /\ IsAt(JsonLiteral, value, w) /\ js # {}
       THEN SubSeq(value, b, Min(js))
       ELSE <<>>

\* a plausible slip: the catch around JSON.parse is taken for an empty object
JsonParse_NeverFails(payload) == [ok |-> TRUE, attrs |-> <<>>]

\* JSON.parse of a payload {...}: the strings of the model hold no colon, so
\* the only payload that is an object is {} with white space inside
JsonParse(payload) ==
  IF SelectSeq(payload, LAMBDA c : c \notin SpaceChar) = <<"{", "}">>
    THEN [ok |-> TRUE, attrs |-> <<>>]
    ELSE [ok |-> FALSE, attrs |-> <<>>]

\* METADATA_PATTERNS.withAttrs after the prefix: \s+(.+?)\s*-->$ ; the result
\* is the captured attribute string, or <<>> when there is no match.  \s+ is
\* greedy and gives back, .+? is lazy and matches no line break
WithAttrs(value, r) ==
  LET w == FirstNotIn(value, r, SpaceChar)
      T == Len(value) - 2
      Fits(a, b) ==
        /\ a <= b
        /\ \A k \in a..b : value[k] # "\n"
        /\ CommentTail(value, b + 1)
      as == {a \in (r + 1)..Min({w, T - 1}) : \E b \in a..(T - 1) : Fits(a, b)}
  IN IF as = {} THEN <<>>
     ELSE SubSeq(value, Max(as), Min({b \in Max(as)..(T - 1) : Fits(Max(as), b)}))

NoMetadata == [ok |-> FALSE, nodeType |-> <<>>, hasAttrs |-> FALSE, attrs |-> <<>>]
Metadata(nodeType, attrs) == [ok |-> TRUE, nodeType |-> nodeType, hasAttrs |-> TRUE, attrs |-> attrs]
SimpleMetadata(nodeType) == [ok |-> TRUE, nodeType |-> nodeType, hasAttrs |-> FALSE, attrs |-> <<>>]

ParseAdfMetadataComment(value) ==
  LET h == CommentHead(value, FALSE)
      c == CommentHead(value, TRUE)
      attrsJson == WithAttrsJson(value, h.rest)
      json == JsonParse(attrsJson)
      attrString == WithAttrs(value, h.rest)
      attrs == ParseAttributeString(attrString)
  IN IF h.ok /\ attrsJson # <<>>
       THEN IF json.ok THEN Metadata(h.nodeType, json.attrs)
            ELSE SimpleMetadata(h.nodeType)
     ELSE IF h.ok /\ attrString # <<>>
       THEN IF attrs # <<>> THEN Metadata(h.nodeType, attrs)
            ELSE SimpleMetadata(h.nodeType)
     ELSE IF h.ok /\ CommentTail(value, h.rest)
       THEN SimpleMetadata(h.nodeType)
     ELSE IF c.ok /\ CommentTail(value, c.rest)
       THEN Metadata(c.nodeType, <<Attr(K_closing, BoolVal(TRUE))>>)
     ELSE NoMetadata

\* nodeTypeMapping[meta.nodeType] || meta.nodeType
NodeTypeMapping(nodeType) ==
  CASE nodeType = T_cell -> T_tableCell
    [] nodeType = T_header -> T_tableHeader
    [] OTHER -> nodeType

AdfNode(type, attrs) == [type |-> type, attrs |-> attrs]

\* a plausible slip: the case of cell on a header cell is missing
MetaApplies_MappedOnly(meta, type) ==
  /\ meta.hasAttrs
  /\ \/ meta.nodeType = type
     \/ NodeTypeMapping(meta.nodeType) = type

\* the metadata applies to a node of this type
MetaApplies(meta, type) ==
  /\ meta.hasAttrs
  /\ \/ meta.nodeType = T_cell /\ type \in {T_tableCell, T_tableHeader}
     \/ meta.nodeType = type
     \/ NodeTypeMapping(meta.nodeType) = type

RECURSIVE ApplyMetadataToAdfNode(_, _)
ApplyMetadataToAdfNode(adfNode, metadata) ==
  IF metadata = <<>> THEN adfNode
  ELSE ApplyMetadataToAdfNode(
         IF MetaApplies(Head(metadata), adfNode.type)
           THEN [adfNode EXCEPT !.attrs = MergeAttrs(@, Head(metadata).attrs)]
           ELSE adfNode,
         Tail(metadata))

(***************************************************************************)
(* The Social Token Scanner as a state machine: one step per iteration of  *)
(* the while loop of parseInlineContentWithSocialElements.                 *)
(***************************************************************************)
ScanPieces ==
  { <<"x">>, <<" ">>,
    <<"{", "u", "s", "e", "r", ":", "a", "}">>,
    <<":", "o", "k", ":">>,
    <<"{", "d", "a", "t", "e", ":", "2", "0", "2", "3", "-", "1", "2", "-", "2", "5", "}">>,
    <<"2", "0", "2", "3", "-", "1", "2", "-", "2", "5">>,
    <<"{", "s", "t", "a", "t", "u", "s", ":", "s", "}">>,
    <<"[", "t", "]", "(", "c", "a", "r", "d", ":", "u", ")">>,
    <<"!", "[", "a", "]", "(", "m", "e", "d", "i", "a", ":", "i", ")">> }

ScanInputs == { Flatten(ps) : ps \in SeqsUpTo(ScanPieces, 0, MaxPieces) }

IdleScan ==
  /\ content = <<>>
  /\ remaining = <<>>
  /\ nodes = <<>>
  /\ spans = <<>>
  /\ scanPc = "idle"

InitScan ==
  /\ content \in ScanInputs
  /\ remaining = content
  /\ nodes = <<>>
  /\ spans = <<>>
  /\ scanPc = "loop"

\* the number of characters of content the loop has consumed
Consumed == Len(content) - Len(remaining)
Span(a, b) == [from |-> a, to |-> b]
\* the span of a plain run that starts at offset a (no node for an empty run)
TextSpans(ns, a) == [k \in 1..Len(ns) |-> Span(a, a + Len(ns[k].text))]

\* an iteration that finds a token: the text before it, then the token
ScanToken ==
  /\ scanPc = "loop"
  /\ Len(remaining) > 0
  /\ LET socialMatch == FindNextSocialElement(remaining)
         before == ParseInlineMarksRecursively(socialMatch.beforeText)
     IN /\ socialMatch.ok
        /\ nodes' = nodes \o before \o <<socialMatch.node>>
        /\ spans' = spans \o TextSpans(before, Consumed)
                          \o <<Span(Consumed + socialMatch.index + socialMatch.lead,
                                    Consumed + socialMatch.index + socialMatch.len)>>
        /\ remaining' = socialMatch.afterText
  /\ UNCHANGED <<content, scanPc>>
  /\ FrameScan

\* an iteration that finds no token: the rest is text, and the loop breaks
ScanRest ==
  /\ scanPc = "loop"
  /\ Len(remaining) > 0
  /\ LET rest == ParseInlineMarksRecursively(remaining)
     IN /\ ~FindNextSocialElement(remaining).ok
        /\ nodes' = nodes \o rest
        /\ spans' = spans \o TextSpans(rest, Consumed)
  /\ scanPc' = "done"
  /\ UNCHANGED <<content, remaining>>
  /\ FrameScan

\* the loop condition fails (also: the empty content returns at once)
ScanReturn ==
  /\ scanPc = "loop"
  /\ Len(remaining) = 0
  /\ scanPc' = "done"
  /\ UNCHANGED <<content, remaining, nodes, spans>>
  /\ FrameScan

(***************************************************************************)
(* The Mark Resolver as a state machine: one call of                       *)
(* convertMdastInlineNodes on the children of a paragraph.                 *)
(***************************************************************************)
IdleMark ==
  /\ mdIn = <<>>
  /\ adfOut = <<>>
  /\ markPc = "idle"

InitMark ==
  /\ mdIn \in MarkInputs
  /\ adfOut = <<>>
  /\ markPc = "ready"

ConvertInline ==
  /\ markPc = "ready"
  /\ adfOut' = ConvertMdastInlineNodes(mdIn)
  /\ markPc' = "done"
  /\ UNCHANGED mdIn
  /\ FrameMark

(***************************************************************************)
(* The Fence Block Resolver as a state machine: one step per pass of the   *)
(* while loop of postProcessAdfFenceBlocks.  The argument is the parse of  *)
(* a preprocessed markdown document, or a paragraph whose text leaf holds  *)
(* the lines (what an escaped fence line parses to).                       *)
(***************************************************************************)
FenceAlphabet ==
  { Ln("tilde", "panel"), Ln("tilde", "expand"), Ln("tilde", ""),
    Ln("backtick", "panel"), Ln("backtick", "mediaGroup"), Ln("backtick", "js"),
    Ln("backtick", ""), Ln("text", "x"), Ln("blank", "") }

OtherFence(c) == IF c = "tilde" THEN "backtick" ELSE "tilde"

\* containers ks[1], ks[2], ... opened inside one another with alternating
\* fence characters, around one line of text
RECURSIVE Chain(_, _)
Chain(ks, c) ==
  IF ks = <<>> THEN <<Ln("text", "x")>>
  ELSE <<Ln(c, Head(ks))>> \o Chain(Tail(ks), OtherFence(c))

FenceDocs ==
  SeqsUpTo(FenceAlphabet, 0, MaxLines)
    \cup { Chain(ks, "tilde") \o tail :
             ks \in SeqsUpTo({"panel", "expand"}, 1, MaxDepth),
             tail \in {<<>>, <<Ln("tilde", "")>>} }

FenceInputs ==
  { Parse(PreprocessNestedAdfBlocks(d)) : d \in FenceDocs }
    \cup { <<Paragraph(<<TextLeaf(d)>>)>> : d \in FenceDocs \ {<<>>} }

IdleFence ==
  /\ fenceIn = <<>>
  /\ fenceTree = <<>>
  /\ hasChanges = FALSE
  /\ passCount = 0
  /\ replaced = -1
  /\ fencePc = "idle"

InitFence ==
  /\ fenceIn \in FenceInputs
  /\ fenceTree = fenceIn
  /\ hasChanges = TRUE
  /\ passCount = 0
  /\ replaced = -1
  /\ fencePc = "loop"

\* one pass over the tree
FencePass ==
  /\ fencePc = "loop"
  /\ LoopGuard(hasChanges, passCount)
  /\ fenceTree' = ProcessNodes(fenceTree)
  /\ hasChanges' = (Replacements(fenceTree) > 0)
  /\ replaced' = Replacements(fenceTree)
  /\ passCount' = passCount + 1
  /\ UNCHANGED <<fenceIn, fencePc>>
  /\ FrameFence

\* the loop condition fails: return processedTree
FenceReturn ==
  /\ fencePc = "loop"
  /\ ~LoopGuard(hasChanges, passCount)
  /\ fencePc' = "done"
  /\ UNCHANGED <<fenceIn, fenceTree, hasChanges, passCount, replaced>>
  /\ FrameFence

(***************************************************************************)
(* Nesting consolidation: postProcessNestedAdfFenceBlocks, one step per    *)
(* iteration of its for loop.  A block is a record [type, id, content];    *)
(* id tells the blocks of the argument apart (the block at position p has  *)
(* id p, the child a container starts with has id -p).                     *)
(***************************************************************************)
Block(t, id, c) == [type |-> t, id |-> id, content |-> c]

IsAdfFenceBlockType(nodeType) ==
  nodeType \in {"panel", "expand", "nestedExpand", "mediaSingle", "mediaGroup"}

\* a plausible slip: the check for a next block of the same type is missing
SameTypeNext_Never(cs, i) == FALSE

\* content[j] && content[j].type === node.type, with j = i + 1
SameTypeNext(cs, i) == i + 1 <= Len(cs) /\ cs[i + 1].type = cs[i].type

\* hasOnlyPanels && content.length > j: the up to three blocks from j on are panels
HasOnlyPanels(cs, j) ==
  /\ \A k \in j..Min({Len(cs), j + 2}) : cs[k].type = "panel"
  /\ Len(cs) >= j

\* the two early continues that keep the block as it is
KeepSeparate(cs, i) ==
  \/ SameTypeNext(cs, i)
  \/ cs[i].type = "panel" /\ HasOnlyPanels(cs, i + 1)

\* a plausible slip: the test for a paragraph is missing from the while loop
NestEnd_FenceOnly(cs, j) ==
  FirstNotIn(cs, j, {b \in Range(cs) : IsAdfFenceBlockType(b.type)})

\* the position at which the while loop over j stops
NestEnd(cs, j) ==
  FirstNotIn(cs, j, {b \in Range(cs) : IsAdfFenceBlockType(b.type) \/ b.type = "paragraph"})

IsCollector(cs, i) == cs[i].type \in {"expand", "panel"} /\ i < Len(cs)

ConsTypes == {"panel", "expand", "paragraph", "heading", "mediaSingle"}

ConsInputs ==
  { [p \in 1..Len(ts) |->
       Block(ts[p], p, IF ts[p] \in {"panel", "expand"}
                         THEN <<Block("paragraph", 0 - p, <<>>)>> ELSE <<>>)] :
    ts \in SeqsUpTo(ConsTypes, 0, MaxBlocks) }

IdleCons ==
  /\ consIn = <<>>
  /\ consOut = <<>>
  /\ consI = 0
  /\ consPc = "idle"

InitCons ==
  /\ consIn \in ConsInputs
  /\ consOut = <<>>
  /\ consI = 1
  /\ consPc = "loop"

\* the block is pushed as it is: it is no expand or panel, or it is the last
\* block, or nothing that follows can be nested
ConsPush ==
  /\ consPc = "loop"
  /\ consI <= Len(consIn)
  /\ \/ ~IsCollector(consIn, consI)
     \/ /\ ~KeepSeparate(consIn, consI)
        /\ NestEnd(consIn, consI + 1) = consI + 1
  /\ consOut' = Append(consOut, consIn[consI])
  /\ consI' = consI + 1
  /\ UNCHANGED <<consIn, consPc>>
  /\ FrameCons

\* an expand or panel followed by a block of its own type is kept separate
ConsKeep ==
  /\ consPc = "loop"
  /\ consI <= Len(consIn)
  /\ IsCollector(consIn, consI)
  /\ KeepSeparate(consIn, consI)
  /\ consOut' = Append(consOut, consIn[consI])
  /\ consI' = consI + 1
  /\ UNCHANGED <<consIn, consPc>>
  /\ FrameCons

\* an expand or panel takes the fence blocks and paragraphs that follow it
ConsNest ==
  /\ consPc = "loop"
  /\ consI <= Len(consIn)
  /\ IsCollector(consIn, consI)
  /\ ~KeepSeparate(consIn, consI)
  /\ LET j == NestEnd(consIn, consI + 1)
     IN /\ j > consI + 1
        /\ consOut' = Append(consOut,
             [consIn[consI] EXCEPT !.content = @ \o SubSeq(consIn, consI + 1, j - 1)])
        /\ consI' = j
  /\ UNCHANGED <<consIn, consPc>>
  /\ FrameCons

\* the for loop ends: return result
ConsReturn ==
  /\ consPc = "loop"
  /\ consI > Len(consIn)
  /\ consPc' = "done"
  /\ UNCHANGED <<consIn, consOut, consI>>
  /\ FrameCons

(***************************************************************************)
(* The annotation round trip as a state machine: a node is written out     *)
(* (generateMetadataComment gives its annotation; the attributes the       *)
(* annotation leaves out are carried by the markup itself), the annotation *)
(* is read (parseAdfMetadataComment) and applied to the node the markup    *)
(* gives (applyMetadataToAdfNode).  A run starts from a node to write out, *)
(* or from a node of the markup with annotations written by hand in front  *)
(* of it.                                                                  *)
(***************************************************************************)
MetaTypes ==
  {T_heading, T_paragraph, T_panel, T_table, T_codeBlock, T_orderedList, T_media}
\* the keys of the model for a type: id, and those the markup or a default
\* can express for it
MetaKeys(nodeType) ==
  CASE nodeType = T_heading -> {K_id, K_level}
    [] nodeType = T_panel -> {K_id, K_panelType}
    [] nodeType = T_codeBlock -> {K_id, K_language}
    [] nodeType = T_orderedList -> {K_id, K_order}
    [] nodeType = T_media -> {K_id, K_alt}
    [] nodeType = T_table -> {K_id, K_layout, K_isNumberColumnEnabled}
    [] OTHER -> {K_id, K_layout}
MetaValues ==
  { StrVal(<<"x">>), StrVal(<<"1", "2">>), StrVal(TrueText), StrVal(<<>>),
    StrVal(<<"k", "=", "v">>), StrVal(V_default),
    NumVal(12), BoolVal(TRUE), BoolVal(FALSE) }

MetaAttrs(nodeType) ==
  {as \in SeqsUpTo({Attr(k, x) : k \in MetaKeys(nodeType), x \in MetaValues}, 0, MaxAttrs) :
     \A i, j \in 1..Len(as) : i # j => as[i].key # as[j].key}

\* the attributes the markup itself expresses
ImpliedAttributes(nodeType, attrs) ==
  SelectSeq(attrs, LAMBDA a : IsImplied(nodeType, a))

Quote == <<"'">>
LegacyOpen == <<"a", "t", "t", "r", "s", "=", "'">>

\* <!-- adf:kind attrs='PAYLOAD' -->
LegacyComment(kind, payload) ==
  CommentOpen \o <<" ">> \o AdfPrefix \o kind \o <<" ">>
    \o LegacyOpen \o payload \o Quote \o <<" ">> \o CommentClose

\* payloads of the legacy form: x, {x}, x y and { are no JSON; {} and 12 are
LegacyPayloads ==
  { <<"x">>, <<"{", "x", "}">>, <<"x", " ", "y">>, <<"{">>, <<"{", "}">>, <<"1", "2">> }
LegacyKinds == {T_paragraph, T_panel}
LegacyComments == {LegacyComment(kind, p) : kind \in LegacyKinds, p \in LegacyPayloads}

\* the annotations written by hand in front of a node
WrittenComments == {<<c>> : c \in LegacyComments}
\* the nodes the markup gives for them
WrittenTargets == {AdfNode(t, <<>>) : t \in {T_paragraph, T_panel}}

\* <!-- adf:kind --> and <!-- /adf:kind -->
SimpleComment(kind) ==
  CommentOpen \o <<" ">> \o AdfPrefix \o kind \o <<" ">> \o CommentClose
ClosingComment(kind) ==
  CommentOpen \o <<" ", "/">> \o AdfPrefix \o kind \o <<" ">> \o CommentClose

\* <!-- adf:kind key="value" ... -->, written by hand
WrittenAnnotation(kind, attrs) ==
  CommentOpen \o <<" ">> \o AdfPrefix \o kind \o <<" ">>
    \o AttrsString(attrs) \o <<" ">> \o CommentClose

\* one or more annotations in front of a panel, a table cell or a header
\* cell, of the kind of the node, of an alias of it, or of another kind
AppliedKinds == {T_panel, T_expand, T_cell, T_header, T_tableCell}
AppliedAttrs ==
  { <<Attr(K_id, StrVal(<<"a">>))>>, <<Attr(K_id, StrVal(<<"b">>))>>,
    <<Attr(K_panelType, StrVal(<<"x">>))>> }
AppliedAnnotations ==
  {WrittenAnnotation(kind, as) : kind \in AppliedKinds, as \in AppliedAttrs}
    \cup {SimpleComment(T_panel)}
AppliedComments == SeqsUpTo(AppliedAnnotations, 1, MaxAnnotations)
AppliedTargets ==
  { AdfNode(T_panel, <<Attr(K_panelType, StrVal(<<"i", "n", "f", "o">>))>>),
    AdfNode(T_tableCell, <<>>), AdfNode(T_tableHeader, <<>>) }

IdleMeta ==
  /\ metaNode = AdfNode(<<>>, <<>>)
  /\ metaComment = <<>>
  /\ metaParsed = <<>>
  /\ metaOut = AdfNode(<<>>, <<>>)
  /\ metaPc = "idle"

InitMeta ==
  /\ \/ /\ metaNode \in UNION {{AdfNode(t, as) : as \in MetaAttrs(t)} : t \in MetaTypes}
        /\ metaComment = <<>>
        /\ metaPc = "start"
     \/ /\ metaNode \in WrittenTargets
        /\ metaComment \in WrittenComments
        /\ metaPc = "emitted"
     \/ /\ metaNode \in AppliedTargets
        /\ metaComment \in AppliedComments
        /\ metaPc = "emitted"
  /\ metaParsed = <<>>
  /\ metaOut = AdfNode(<<>>, <<>>)

\* the annotation of the node is generated
MetaEmit ==
  /\ metaPc = "start"
  /\ LET comment == GenerateMetadataComment(metaNode.type, metaNode.attrs)
     IN metaComment' = IF comment = <<>> THEN <<>> ELSE <<comment>>
  /\ metaPc' = "emitted"
  /\ UNCHANGED <<metaNode, metaParsed, metaOut>>
  /\ FrameMeta

\* the annotations are read, in order; one that is no annotation gives nothing
MetaParse ==
  /\ metaPc = "emitted"
  /\ metaComment # <<>>
  /\ metaParsed' =
       SelectSeq([k \in 1..Len(metaComment) |-> ParseAdfMetadataComment(metaComment[k])],
                 LAMBDA m : m.ok)
  /\ metaPc' = "parsed"
  /\ UNCHANGED <<metaNode, metaComment, metaOut>>
  /\ FrameMeta

\* no annotation was written: there is nothing to read
MetaSkip ==
  /\ metaPc = "emitted"
  /\ metaComment = <<>>
  /\ metaPc' = "parsed"
  /\ UNCHANGED <<metaNode, metaComment, metaParsed, metaOut>>
  /\ FrameMeta

\* the metadata read is applied to the node the markup gives
MetaApply ==
  /\ metaPc = "parsed"
  /\ metaOut' = ApplyMetadataToAdfNode(
                  AdfNode(metaNode.type, ImpliedAttributes(metaNode.type, metaNode.attrs)),
                  metaParsed)
  /\ metaPc' = "done"
  /\ UNCHANGED <<metaNode, metaComment, metaParsed>>
  /\ FrameMeta

(***************************************************************************)
(* processMetadataComments and findMetadataTarget                          *)
(* (utils/metadata-comments.ts).  A node of the tree is a record [type,    *)
(* value, children, adfMetadata]; value is the text of an html or text     *)
(* node, adfMetadata is node.data.adfMetadata.  A node is named by its     *)
(* path, the child positions (from 1) from the root down; the root is <<>>.*)
(***************************************************************************)
\* a plausible slip: processedTree = tree, the writes reach the caller's tree
CallerTree_Shared(tree, processedTree) == processedTree

\* processedTree = JSON.parse(JSON.stringify(tree)): the stage writes to an
\* object of its own, so the tree of the caller is after the writes what it
\* was before them
CallerTree(tree, processedTree) == tree

ANode(type, value, children, meta) ==
  [type |-> type, value |-> value, children |-> children, adfMetadata |-> meta]
Html(value) == ANode("html", value, <<>>, <<>>)
AText(value) == ANode("text", value, <<>>, <<>>)
AParent(type, children) == ANode(type, <<>>, children, <<>>)

\* value.includes(lit)
Includes(value, lit) == \E i \in 1..Len(value) : IsAt(lit, value, i)

D_inlineCard == <<"i", "n", "l", "i", "n", "e", "C", "a", "r", "d">>
D_blockCard == <<"b", "l", "o", "c", "k", "C", "a", "r", "d">>

\* pattern.test(value) for the patterns withAttrsJson, withAttrs and simple
\* (closing = FALSE) or for the pattern closing (closing = TRUE)
PatternTest(value, head, closing) ==
  /\ head.ok
  /\ \/ CommentTail(value, head.rest)
     \/ ~closing /\ WithAttrs(value, head.rest) # <<>>
     \/ ~closing /\ WithAttrsJson(value, head.rest) # <<>>

\* one of the four patterns matches, and the comment is no processing directive
IsAdfMetadataComment(value) ==
  /\ \/ PatternTest(value, CommentHead(value, FALSE), FALSE)
     \/ PatternTest(value, CommentHead(value, TRUE), TRUE)
  /\ ~Includes(value, AdfPrefix \o D_inlineCard)
  /\ ~Includes(value, AdfPrefix \o D_blockCard)

\* candidate.type !== 'html' || !isAdfMetadataComment(candidate.value)
NotAnnotation(node) == node.type # "html" \/ ~IsAdfMetadataComment(node.value)

NoTarget == [kind |-> "none", index |-> 0]
ParentTarget == [kind |-> "parent", index |-> 0]
ChildTarget(i) == [kind |-> "child", index |-> i]

\* for (let i = commentIndex + 1; i < parent.children.length; i++): the
\* position of the first candidate from i on, or 0
RECURSIVE ScanForward(_, _)
ScanForward(children, i) ==
  IF i > Len(children) THEN 0
  ELSE IF NotAnnotation(children[i]) THEN i
  ELSE ScanForward(children, i + 1)

\* for (let i = commentIndex - 1; i >= 0; i--)
RECURSIVE ScanBackward(_, _)
ScanBackward(children, i) ==
  IF i < 1 THEN 0
  ELSE IF NotAnnotation(children[i]) THEN i
  ELSE ScanBackward(children, i - 1)

ContentTypes == {"heading", "paragraph", "tableCell", "tableHeader"}

\* a plausible slip: the earlier sibling is tried before the later one
Strategies_PreviousFirst(parentType, next, prev) ==
  IF parentType \in ContentTypes THEN ParentTarget
  ELSE IF prev # 0 THEN ChildTarget(prev)
  ELSE IF next # 0 THEN ChildTarget(next)
  ELSE IF parentType # "root" THEN ParentTarget
  ELSE NoTarget

\* the four strategies, in order; next and prev are what the two loops found
Strategies(parentType, next, prev) ==
  IF parentType \in ContentTypes THEN ParentTarget
  ELSE IF next # 0 THEN ChildTarget(next)
  ELSE IF prev # 0 THEN ChildTarget(prev)
  ELSE IF parentType # "root" THEN ParentTarget
  ELSE NoTarget

\* commentIndex is the position of the comment among parent.children (from 1)
FindMetadataTarget(parent, commentIndex) ==
  Strategies(parent.type,
             ScanForward(parent.children, commentIndex + 1),
             ScanBackward(parent.children, commentIndex - 1))

Front(path) == SubSeq(path, 1, Len(path) - 1)
Last(path) == path[Len(path)]

RECURSIVE NodeAt(_, _)
NodeAt(node, path) ==
  IF path = <<>> THEN node ELSE NodeAt(node.children[Head(path)], Tail(path))

\* the paths of the html nodes that are annotations, in the order visit
\* reaches them (a node before its children, children from first to last)
RECURSIVE AnnotationPaths(_, _)
RECURSIVE AnnotationPathsFrom(_, _, _)
AnnotationPaths(node, path) ==
  (IF node.type = "html" /\ IsAdfMetadataComment(node.value) THEN <<path>> ELSE <<>>)
    \o AnnotationPathsFrom(node, path, 1)
AnnotationPathsFrom(node, path, k) ==
  IF k > Len(node.children) THEN <<>>
  ELSE AnnotationPaths(node.children[k], Append(path, k))
         \o AnnotationPathsFrom(node, path, k + 1)

\* the target of the annotation at the path: found tells whether there is one
TargetPath(t, path) ==
  CASE t.kind = "parent" -> [found |-> TRUE, path |-> Front(path)]
    [] t.kind = "child" -> [found |-> TRUE, path |-> Append(Front(path), t.index)]
    [] OTHER -> [found |-> FALSE, path |-> <<>>]

TargetOf(tree, path) ==
  TargetPath(FindMetadataTarget(NodeAt(tree, Front(path)), Last(path)), path)

\* targetNode.data.adfMetadata.push(metadata)
RECURSIVE AttachAt(_, _, _)
AttachAt(node, path, metadata) ==
  IF path = <<>> THEN [node EXCEPT !.adfMetadata = Append(@, metadata)]
  ELSE [node EXCEPT !.children[Head(path)] = AttachAt(@, Tail(path), metadata)]

\* children.splice(index, 1): nothing goes when the index is past the end
Splice(children, i) ==
  IF i > Len(children) THEN children
  ELSE SubSeq(children, 1, i - 1) \o SubSeq(children, i + 1, Len(children))

\* parent.children.splice(index, 1) for the node at the path
RECURSIVE RemoveAt(_, _)
RemoveAt(node, path) ==
  IF Len(path) = 1 THEN [node EXCEPT !.children = Splice(@, Head(path))]
  ELSE IF Head(path) > Len(node.children) THEN node
  ELSE [node EXCEPT !.children[Head(path)] = RemoveAt(@, Tail(path))]

RECURSIVE Reverse(_)
Reverse(xs) == IF xs = <<>> THEN <<>> ELSE Append(Reverse(Tail(xs)), Head(xs))

\* a plausible slip: the entries are removed in the order they were found
RemovalOrder_Forward(toRemove) == toRemove

\* toRemove.reverse()
RemovalOrder(toRemove) == Reverse(toRemove)

\* forEach(({parent, index}) => parent.children.splice(index, 1))
RECURSIVE RemoveEach(_, _)
RemoveEach(tree, paths) ==
  IF paths = <<>> THEN tree
  ELSE RemoveEach(RemoveAt(tree, Head(paths)), Tail(paths))

(***************************************************************************)
(* processMetadataComments as a state machine.  The trees of the model     *)
(* hold no span (an opening comment, a text and a closing comment in a     *)
(* row), so processSpanMetadataComments returns its copy as it got it.     *)
(***************************************************************************)

\* the html values of the model: two annotations, a processing directive and
\* a comment that is no annotation
AnnValues ==
  { SimpleComment(T_panel),
    GenerateMetadataComment(T_paragraph, <<Attr(K_id, StrVal(<<"x">>))>>) }
OtherHtmlValues == { SimpleComment(D_inlineCard), CommentOpen \o <<" ", "x", " ">> \o CommentClose }

\* the blocks of the model: comments, paragraphs, headings and table cells
\* with and without an inline annotation, and block quotes that hold one
AnnBlocks ==
  {Html(v) : v \in AnnValues \cup OtherHtmlValues}
    \cup { AParent("paragraph", <<AText(<<"t">>)>>),
           AParent("heading", <<AText(<<"t">>), Html(SimpleComment(T_heading))>>),
           AParent("paragraph", <<AText(<<"t">>), Html(ClosingComment(T_expand))>>),
           AParent("table", <<AParent("tableRow",
                     <<AParent("tableCell", <<Html(SimpleComment(T_cell)), AText(<<"t">>)>>)>>)>>),
           AParent("blockquote", <<Html(SimpleComment(T_panel))>>),
           AParent("blockquote",
                   <<AParent("paragraph", <<AText(<<"t">>)>>), Html(SimpleComment(T_panel)),
                     Html(SimpleComment(T_expand))>>) }
AnnTrees == {AParent("root", cs) : cs \in SeqsUpTo(AnnBlocks, 0, MaxKids)}

IdleAnn ==
  /\ annIn = AParent("root", <<>>)
  /\ annTree = AParent("root", <<>>)
  /\ annCaller = AParent("root", <<>>)
  /\ annTodo = <<>>
  /\ annFound = <<>>
  /\ annRemove = <<>>
  /\ annPc = "idle"

\* the tree is copied and the visit starts; the trees of the model hold no
\* span-style comment, so that processSpanMetadataComments returns its copy
InitAnn ==
  /\ annIn \in AnnTrees
  /\ annTree = annIn
  /\ annCaller = annIn
  /\ annTodo = AnnotationPaths(annIn, <<>>)
  /\ annFound = <<>>
  /\ annRemove = <<>>
  /\ annPc = "visit"

\* the visit reaches the next annotation: its metadata goes to its target and
\* the node is marked for removal, or it has no target and stays
AnnVisit ==
  /\ annPc = "visit"
  /\ annTodo # <<>>
  /\ \E target \in {TargetOf(annTree, Head(annTodo))} :
       /\ annFound' = Append(annFound, [path |-> Head(annTodo), target |-> target])
       /\ IF target.found
            THEN /\ annTree' = AttachAt(annTree, target.path,
                                        ParseAdfMetadataComment(NodeAt(annTree, Head(annTodo)).value))
                 /\ annRemove' = Append(annRemove, Head(annTodo))
            ELSE UNCHANGED <<annTree, annRemove>>
  /\ annCaller' = CallerTree(annCaller, annTree')
  /\ annTodo' = Tail(annTodo)
  /\ UNCHANGED <<annIn, annPc>>
  /\ FrameAnn

\* after the visit the marked nodes are removed and the copy is returned
AnnRemoveMarked ==
  /\ annPc = "visit"
  /\ annTodo = <<>>
  /\ annTree' = RemoveEach(annTree, RemovalOrder(annRemove))
  /\ annCaller' = CallerTree(annCaller, annTree')
  /\ annPc' = "done"
  /\ UNCHANGED <<annIn, annTodo, annFound, annRemove>>
  /\ FrameAnn


(***************************************************************************)
(* The two date patterns of findNextSocialElement on a text that holds one *)
(* date, in braces or bare.                                                *)
(***************************************************************************)
TwoDigits(n) == <<DigitChar(n \div 10), DigitChar(n % 10)>>
DateYears == {<<"1", "9", "6", "9">>, <<"1", "9", "7", "0">>, <<"2", "0", "2", "3">>,
              <<"2", "0", "2", "4">>}
DateMonths == {0, 1, 2, 4, 12, 13}
DateDays == {0, 1, 28, 29, 30, 31, 32}
DateStrings ==
  {y \o <<"-">> \o TwoDigits(m) \o <<"-">> \o TwoDigits(d) :
     y \in DateYears, m \in DateMonths, d \in DateDays}
DateTexts ==
  {<<"{", "d", "a", "t", "e", ":">> \o ds \o <<"}">> : ds \in DateStrings}
    \cup DateStrings
    \cup {<<"o", "n", " ">> \o ds : ds \in DateStrings}

IdleDate ==
  /\ dateText = <<>>
  /\ dateNode = TokenNode("none", [timestamp |-> <<>>])
  /\ lenientDates = FALSE
  /\ datePc = "idle"

InitDate ==
  /\ dateText \in DateTexts
  /\ dateNode = TokenNode("none", [timestamp |-> <<>>])
  /\ lenientDates \in BOOLEAN
  /\ datePc = "ready"

\* the first token of the text is found and its node is built
DateProcess ==
  /\ datePc = "ready"
  /\ FindNextSocialElement(dateText).ok
  /\ FindNextSocialElement(dateText).node.type = "date"
  /\ dateNode' = FindNextSocialElement(dateText).node
  /\ datePc' = "done"
  /\ UNCHANGED <<dateText, lenientDates>>
  /\ FrameDate

(***************************************************************************)
(* processSpanMetadataComments on one paragraph: the for loop over         *)
(* paragraph.children, one step per iteration.  A child is a record        *)
(* [type, value, adfMetadata]; the metadata of a collapsed span is a       *)
(* record [nodeType, attrs, raw, marks].                                   *)
(***************************************************************************)
K_underline == <<"u", "n", "d", "e", "r", "l", "i", "n", "e">>
K_textColor == <<"t", "e", "x", "t", "C", "o", "l", "o", "r">>
K_backgroundColor ==
  <<"b", "a", "c", "k", "g", "r", "o", "u", "n", "d", "C", "o", "l", "o", "r">>
K_subsup == <<"s", "u", "b", "s", "u", "p">>
K_color == <<"c", "o", "l", "o", "r">>
K_type == <<"t", "y", "p", "e">>
T_text == <<"t", "e", "x", "t">>
T_mark == <<"m", "a", "r", "k">>

SpanChild(type, value, meta) == [type |-> type, value |-> value, adfMetadata |-> meta]
SpanHtml(value) == SpanChild("html", value, <<>>)
SpanText(value) == SpanChild("text", value, <<>>)

\* the switch on the key: the marks one attribute gives
MarksOfAttr(a) ==
  CASE a.key = K_underline ->
         IF a.val = StrVal(TrueText) \/ a.val = BoolVal(TRUE)
           THEN <<Mark("underline", <<>>)>> ELSE <<>>
    [] a.key = K_textColor -> <<Mark("textColor", <<Attr(K_color, a.val)>>)>>
    [] a.key = K_backgroundColor -> <<Mark("backgroundColor", <<Attr(K_color, a.val)>>)>>
    [] a.key = K_subsup -> <<Mark("subsup", <<Attr(K_type, a.val)>>)>>
    [] OTHER -> <<>>

\* for (const [key, value] of Object.entries(attrs)) ... marks.push(...)
RECURSIVE SpanMarks(_)
SpanMarks(attrs) ==
  IF attrs = <<>> THEN <<>> ELSE MarksOfAttr(Head(attrs)) \o SpanMarks(Tail(attrs))

\* openingComment.value.match(/^<!--\s*adf:([a-zA-Z][a-zA-Z0-9]*)\s+(.+?)\s*-->$/)
OpenMatch(value) ==
  IF CommentHead(value, FALSE).ok /\ WithAttrs(value, CommentHead(value, FALSE).rest) # <<>>
    THEN [ok |-> TRUE, nodeType |-> CommentHead(value, FALSE).nodeType,
          attrString |-> WithAttrs(value, CommentHead(value, FALSE).rest)]
    ELSE [ok |-> FALSE, nodeType |-> <<>>, attrString |-> <<>>]

\* closingComment.value.match(/^<!--\s*\/adf:([a-zA-Z][a-zA-Z0-9]*)\s*-->$/)
CloseMatch(value) ==
  IF CommentHead(value, TRUE).ok /\ CommentTail(value, CommentHead(value, TRUE).rest)
    THEN [ok |-> TRUE, nodeType |-> CommentHead(value, TRUE).nodeType]
    ELSE [ok |-> FALSE, nodeType |-> <<>>]

\* a plausible slip: the kinds of the two comments are not compared
SameKind_Always(open, close) == TRUE

\* openMatch[1] === closeMatch[1]
SameKind(open, close) == open.nodeType = close.nodeType

\* the three children from i on are an opening comment, a text and the
\* closing comment of the same kind
IsSpanAt(kids, i) ==
  /\ kids[i].type = "html" /\ kids[i + 1].type = "text" /\ kids[i + 2].type = "html"
  /\ OpenMatch(kids[i].value).ok
  /\ CloseMatch(kids[i + 2].value).ok
  /\ SameKind(OpenMatch(kids[i].value), CloseMatch(kids[i + 2].value))

\* newTextNode
NewTextNode(open, text, close) ==
  SpanChild("text", text.value,
            <<[nodeType |-> OpenMatch(open.value).nodeType,
               attrs |-> ParseAttributeString(OpenMatch(open.value).attrString),
               raw |-> open.value \o text.value \o close.value,
               marks |-> SpanMarks(ParseAttributeString(OpenMatch(open.value).attrString))]>>)

\* paragraph.children.splice(i, 3, newTextNode)
SpliceSpan(kids, i) ==
  SubSeq(kids, 1, i - 1) \o <<NewTextNode(kids[i], kids[i + 1], kids[i + 2])>>
    \o SubSeq(kids, i + 3, Len(kids))

\* the children of the model: spans with recognized and other keys, a span
\* whose closing comment is of another kind, a text and lone comments
SpanOpenA ==
  WrittenAnnotation(T_text, <<Attr(K_underline, BoolVal(TRUE)), Attr(K_textColor, StrVal(<<"r">>)),
                               Attr(K_backgroundColor, StrVal(<<"b">>))>>)
SpanOpenB ==
  WrittenAnnotation(T_text, <<Attr(K_underline, BoolVal(FALSE)), Attr(K_subsup, StrVal(<<"s", "u", "b">>)),
                               Attr(K_id, StrVal(<<"x">>))>>)
SpanPieces ==
  { <<SpanHtml(SpanOpenA), SpanText(<<"t">>), SpanHtml(ClosingComment(T_text))>>,
    <<SpanHtml(SpanOpenB), SpanText(<<"u">>), SpanHtml(ClosingComment(T_text))>>,
    <<SpanHtml(SpanOpenA), SpanText(<<"t">>), SpanHtml(ClosingComment(T_mark))>>,
    <<SpanText(<<"v">>)>>,
    <<SpanHtml(SpanOpenB)>>,
    <<SpanHtml(ClosingComment(T_text))>> }
SpanInputs == {Flatten(ps) : ps \in SeqsUpTo(SpanPieces, 0, MaxSpans)}

IdleSpan ==
  /\ spanIn = <<>>
  /\ spanKids = <<>>
  /\ spanI = 0
  /\ spanPc = "idle"

InitSpan ==
  /\ spanIn \in SpanInputs
  /\ spanKids = spanIn
  /\ spanI = 1
  /\ spanPc = "loop"

\* one iteration of for (let i = 0; i < paragraph.children.length - 2; i++):
\* after a splice the index is taken back by one, so it stays where it is
SpanStep ==
  /\ spanPc = "loop"
  /\ spanI <= Len(spanKids) - 2
  /\ \E found \in {IsSpanAt(spanKids, spanI)} :
       /\ spanKids' = IF found THEN SpliceSpan(spanKids, spanI) ELSE spanKids
       /\ spanI' = IF found THEN spanI ELSE spanI + 1
  /\ UNCHANGED <<spanIn, spanPc>>
  /\ FrameSpan

\* the loop condition fails
SpanReturn ==
  /\ spanPc = "loop"
  /\ spanI > Len(spanKids) - 2
  /\ spanPc' = "done"
  /\ UNCHANGED <<spanIn, spanKids, spanI>>
  /\ FrameSpan

(***************************************************************************)
(* MarkdownToAdfEngine.convert and convertAsync as a state machine.  The   *)
(* argument is any value; a string is a sequence of lines as in the fence  *)
(* resolver, with an optional frontmatter block in front.  engFault names  *)
(* the stage that raises in the call.                                      *)
(***************************************************************************)
\* a value that is no string: n is the number, or 1 and 0 for true and false
JsValue(t, n) == [t |-> t, n |-> n, v |-> <<>>]
JsString(ls) == [t |-> "string", n |-> 0, v |-> ls]

\* typeof value
TypeOf(x) == IF x.t = "null" THEN "object" ELSE x.t

\* !value
Falsy(x) ==
  \/ x.t \in {"undefined", "null"}
  \/ x.t = "number" /\ x.n = 0
  \/ x.t = "boolean" /\ x.n = 0
  \/ x.t = "string" /\ x.v = <<>>

\* a plausible slip: the emptiness test is left out
InvalidInput_TypeOnly(markdown) == TypeOf(markdown) # "string"

\* !markdown || typeof markdown !== 'string'
InvalidInput(markdown) == Falsy(markdown) \/ TypeOf(markdown) # "string"

\* markdown.trim().length === 0
IsBlank(ls) == \A k \in 1..Len(ls) : ls[k].k = "blank"

Doc(cs) == [version |-> 1, type |-> "doc", content |-> cs]
EmptyDoc == Doc(<<>>)
BlockNode(type, attrs, cs) == [type |-> type, attrs |-> attrs, content |-> cs, text |-> <<>>]
PlainText(text) == [type |-> "text", attrs |-> <<>>, content |-> <<>>, text |-> text]
\* the fallback of the outer catch: one paragraph holding the raw input
FallbackDoc(markdown) == Doc(<<BlockNode("paragraph", <<>>, <<PlainText(markdown)>>)>>)

NoResult == [kind |-> "none", doc |-> EmptyDoc]
Returned(doc) == [kind |-> "returned", doc |-> doc]
Raised == [kind |-> "raised", doc |-> EmptyDoc]

\* a plausible slip: the catch rethrows whatever the mode
CatchOuter_Rethrow(strict, markdown) == Raised

\* the catch of convert and of convertAsync
CatchOuter(strict, markdown) ==
  IF strict THEN Raised ELSE Returned(FallbackDoc(markdown))

\* the catch of convertMdastToAdfSync, in non-strict mode
CatchInner == Returned(EmptyDoc)

\* the yaml node of a frontmatter block; lang holds the kind of its content
YamlNode(f) == MdNode("yaml", f, "", <<>>, <<>>, <<>>)

\* processor.parse and run: the frontmatter block, then the blocks
ParseMarkdown(ls) ==
  IF ls # <<>> /\ ls[1].k = "yaml"
    THEN <<YamlNode(ls[1].info)>> \o Parse(Tail(ls))
    ELSE Parse(ls)

\* convertMdastToAdfSync: a content with a brace in front goes to JSON.parse,
\* which raises unless it is JSON; any other content is read line by line
\* with a regular expression, which never raises
SyncFrontmatterRaises(f) == f \in {"flow", "badjson"}

\* convertMdastToAdf: yaml.load of js-yaml raises on a content that is no YAML
AsyncFrontmatterRaises(f) == f \in {"badyaml", "badjson"}

\* the frontmatter stage raises on this tree
FrontmatterRaises(tree, async) ==
  \E k \in 1..Len(tree) :
    /\ tree[k].type = "yaml"
    /\ k = Min({j \in 1..Len(tree) : tree[j].type = "yaml"})
    /\ IF async THEN AsyncFrontmatterRaises(tree[k].lang)
                ELSE SyncFrontmatterRaises(tree[k].lang)

\* the while loop of postProcessAdfFenceBlocks
RECURSIVE FenceLoop(_, _, _)
FenceLoop(tree, hc, pc) ==
  IF LoopGuard(hc, pc)
    THEN FenceLoop(ProcessNodes(tree), Replacements(tree) > 0, pc + 1)
    ELSE tree

PostProcessAdfFenceBlocks(tree) == FenceLoop(tree, TRUE, 0)

NoAdfNode == [type |-> "null", attrs |-> <<>>, content |-> <<>>, text |-> <<>>]

\* convertMdastNodeToADF for yaml, text, paragraph, code and adfFence nodes
RECURSIVE ConvertMdastNodeToADF(_)
RECURSIVE ConvertMdastNodesToADF(_)
ConvertMdastNodeToADF(node) ==
  CASE node.type = "yaml" -> NoAdfNode
    [] node.type = "text" -> PlainText(node.value)
    [] node.type = "paragraph" ->
         IF node.children = <<>> THEN NoAdfNode
         ELSE BlockNode("paragraph", <<>>, ConvertMdastNodesToADF(node.children))
    [] node.type = "code" ->
         BlockNode("codeBlock",
                   IF node.lang # "" THEN <<[key |-> "language", val |-> node.lang]>> ELSE <<>>,
                   <<PlainText(node.value)>>)
    [] node.type = "adfFence" ->
         BlockNode(node.nodeType,
                   IF node.nodeType = "panel" THEN <<[key |-> "panelType", val |-> "info"]>> ELSE <<>>,
                   ConvertMdastNodesToADF(node.children))
ConvertMdastNodesToADF(ns) ==
  IF ns = <<>> THEN <<>>
  ELSE (IF ConvertMdastNodeToADF(Head(ns)) = NoAdfNode THEN <<>>
        ELSE <<ConvertMdastNodeToADF(Head(ns))>>)
         \o ConvertMdastNodesToADF(Tail(ns))

BuildADFFromMdast(tree) == Doc(ConvertMdastNodesToADF(tree))

\* cleanupNode: a paragraph whose children are all white-space text goes
RECURSIVE CleanupNodes(_)
\* a plausible slip: some instead of every
HasOnlyWhitespace_Some(node) ==
  /\ node.type = "paragraph"
  /\ \E k \in 1..Len(node.content) :
       node.content[k].type = "text" /\ IsBlank(node.content[k].text)
HasOnlyWhitespace(node) ==
  /\ node.type = "paragraph"
  /\ \A k \in 1..Len(node.content) :
       node.content[k].type = "text" /\ IsBlank(node.content[k].text)
CleanupNodes(ns) ==
  IF ns = <<>> THEN <<>>
  ELSE (IF HasOnlyWhitespace(Head(ns)) THEN <<>>
        ELSE <<[Head(ns) EXCEPT !.content = CleanupNodes(@)]>>)
         \o CleanupNodes(Tail(ns))

CleanupEmptyParagraphs(adf) == [adf EXCEPT !.content = CleanupNodes(@)]

EngAlphabet == {Ln("tilde", "panel"), Ln("tilde", ""), Ln("text", "x"), Ln("blank", "")}
\* the frontmatter blocks of the model, by their content: kv is "key: value",
\* badyaml is "key: [a" (no YAML, no brace in front), flow is "{a: 1}" (YAML
\* but no JSON), badjson is "{a" (neither)
FrontmatterKinds == {"kv", "badyaml", "flow", "badjson"}
EngStrings ==
  {JsString(ls) : ls \in SeqsUpTo(EngAlphabet, 0, MaxMdLines)}
    \cup {JsString(<<Ln("yaml", f)>> \o ls) :
            f \in FrontmatterKinds, ls \in SeqsUpTo(EngAlphabet, 0, MaxMdLines - 1)}
EngNonStrings ==
  { JsValue("undefined", 0), JsValue("null", 0), JsValue("number", 0),
    JsValue("number", 42), JsValue("boolean", 0), JsValue("object", 0) }
EngFaults == {"none", "preprocess", "parse", "metadata", "fence", "build", "cleanup"}

IdleEng ==
  /\ engInput = JsValue("undefined", 0)
  /\ engStrict = FALSE
  /\ engAsync = FALSE
  /\ engFault = "none"
  /\ engMd = <<>>
  /\ engTree = <<>>
  /\ engAdf = EmptyDoc
  /\ engResult = NoResult
  /\ engSync = NoResult
  /\ engCalls = 0
  /\ engCaller = <<>>
  /\ engPc = "idle"

InitEng ==
  /\ engInput \in EngStrings \cup EngNonStrings
  /\ engStrict \in BOOLEAN
  /\ engAsync = FALSE
  /\ engFault \in EngFaults
  /\ engMd = <<>>
  /\ engTree = <<>>
  /\ engAdf = EmptyDoc
  /\ engResult = NoResult
  /\ engSync = NoResult
  /\ engCalls = 1
  /\ engCaller = <<>>
  /\ engPc = "validate"

\* where a raise inside convertMdastToAdf[Sync] is caught: the sync variant has
\* a try of its own, the async one has none
InnerHandler == IF engAsync THEN "catch" ELSE "catchInner"

\* the two tests before the try
EngValidate ==
  /\ engPc = "validate"
  /\ IF InvalidInput(engInput)
       THEN /\ engResult' = IF engStrict THEN Raised ELSE Returned(EmptyDoc)
            /\ engPc' = "done"
       ELSE IF IsBlank(engInput.v)
         THEN /\ engResult' = Returned(EmptyDoc)
              /\ engPc' = "done"
         ELSE /\ engResult' = engResult
              /\ engPc' = "preprocess"
  /\ UNCHANGED <<engCalls, engCaller, engInput, engStrict, engAsync, engFault, engMd, engTree, engAdf, engSync>>
  /\ FrameEng

\* preprocessNestedAdfBlocks(preprocessConsecutiveHtmlComments(markdown)); the
\* lines of the model hold no HTML comment
EngPreprocess ==
  /\ engPc = "preprocess"
  /\ IF engFault = "preprocess"
       THEN engMd' = engMd /\ engPc' = "catch"
       ELSE engMd' = PreprocessNestedAdfBlocks(engInput.v) /\ engPc' = "parse"
  /\ UNCHANGED <<engCalls, engCaller, engInput, engStrict, engAsync, engFault, engTree, engAdf, engResult, engSync>>
  /\ FrameEng

\* processor.parse and processor.runSync / run
EngParse ==
  /\ engPc = "parse"
  /\ IF engFault = "parse"
       THEN engTree' = engTree /\ engPc' = "catch"
       ELSE engTree' = ParseMarkdown(engMd) /\ engPc' = "metadata"
  /\ UNCHANGED <<engCalls, engCaller, engInput, engStrict, engAsync, engFault, engMd, engAdf, engResult, engSync>>
  /\ FrameEng

\* processMetadataComments: the tree holds no comment, the copy equals the tree
EngMetadata ==
  /\ engPc = "metadata"
  /\ engPc' = IF engFault = "metadata" THEN InnerHandler ELSE "fence"
  /\ engCaller' = IF engFault = "metadata" THEN engCaller ELSE CallerTree(engTree, engTree)
  /\ UNCHANGED <<engCalls, engInput, engStrict, engAsync, engFault, engMd, engTree, engAdf, engResult, engSync>>
  /\ FrameEng

\* postProcessAdfFenceBlocks
EngFence ==
  /\ engPc = "fence"
  /\ IF engFault = "fence"
       THEN engTree' = engTree /\ engPc' = InnerHandler
       ELSE engTree' = PostProcessAdfFenceBlocks(engTree) /\ engPc' = "frontmatter"
  /\ engCaller' = IF engFault = "fence" THEN engCaller ELSE CallerTree(engTree, engTree')
  /\ UNCHANGED <<engCalls, engInput, engStrict, engAsync, engFault, engMd, engAdf, engResult, engSync>>
  /\ FrameEng

\* the frontmatter block is parsed inside a try of its own: a failure is
\* thrown on in strict mode and ignored otherwise
EngFrontmatter ==
  /\ engPc = "frontmatter"
  /\ engPc' = IF FrontmatterRaises(engTree, engAsync) /\ engStrict
                THEN InnerHandler ELSE "build"
  /\ UNCHANGED <<engCalls, engCaller, engInput, engStrict, engAsync, engFault, engMd, engTree, engAdf, engResult, engSync>>
  /\ FrameEng

\* astBuilder.buildADFFromMdast
EngBuild ==
  /\ engPc = "build"
  /\ IF engFault = "build"
       THEN engAdf' = engAdf /\ engPc' = InnerHandler
       ELSE engAdf' = BuildADFFromMdast(engTree) /\ engPc' = "cleanup"
  /\ UNCHANGED <<engCalls, engCaller, engInput, engStrict, engAsync, engFault, engMd, engTree, engResult, engSync>>
  /\ FrameEng

\* return this.cleanupEmptyParagraphs(adf)
EngCleanup ==
  /\ engPc = "cleanup"
  /\ IF engFault = "cleanup"
       THEN engResult' = engResult /\ engPc' = InnerHandler
       ELSE engResult' = Returned(CleanupEmptyParagraphs(engAdf)) /\ engPc' = "done"
  /\ UNCHANGED <<engCalls, engCaller, engInput, engStrict, engAsync, engFault, engMd, engTree, engAdf, engSync>>
  /\ FrameEng

\* the catch of convertMdastToAdfSync: rethrow in strict mode, else the
\* empty document
EngCatchInner ==
  /\ engPc = "catchInner"
  /\ IF engStrict
       THEN engResult' = engResult /\ engPc' = "catch"
       ELSE engResult' = CatchInner /\ engPc' = "done"
  /\ UNCHANGED <<engCalls, engCaller, engInput, engStrict, engAsync, engFault, engMd, engTree, engAdf, engSync>>
  /\ FrameEng

\* the same engine is called again, now with convertAsync, on the same argument
EngCallAsync ==
  /\ engPc = "done"
  /\ ~engAsync
  /\ engSync' = engResult
  /\ engAsync' = TRUE
  /\ engMd' = <<>>
  /\ engTree' = <<>>
  /\ engAdf' = EmptyDoc
  /\ engResult' = NoResult
  /\ engCaller' = <<>>
  /\ engPc' = "validate"
  /\ UNCHANGED <<engCalls, engInput, engStrict, engFault>>
  /\ FrameEng

\* the arguments of the later calls: a panel fence, a text, a frontmatter
\* block that is read and one that is not, a blank string and two values
\* that are no string
LaterArguments ==
  { JsString(<<Ln("tilde", "panel"), Ln("text", "x"), Ln("tilde", "")>>),
    JsString(<<Ln("text", "x")>>),
    JsString(<<Ln("yaml", "kv"), Ln("text", "x")>>),
    JsString(<<Ln("yaml", "flow"), Ln("text", "x")>>),
    JsString(<<Ln("blank", "")>>),
    JsValue("null", 0), JsValue("number", 42) }

\* convert is called once more on the same engine: the locals of the call
\* are new, this.options is what the constructor set
EngCallAgain ==
  /\ engPc = "done"
  /\ engCalls < MaxCalls
  /\ engCalls' = engCalls + 1
  /\ engInput' \in LaterArguments
  /\ engAsync' = FALSE
  /\ engSync' = NoResult
  /\ engMd' = <<>>
  /\ engTree' = <<>>
  /\ engAdf' = EmptyDoc
  /\ engResult' = NoResult
  /\ engCaller' = <<>>
  /\ engPc' = "validate"
  /\ UNCHANGED <<engStrict, engFault>>
  /\ FrameEng

\* the catch of convert / convertAsync
EngCatch ==
  /\ engPc = "catch"
  /\ engResult' = CatchOuter(engStrict, engInput.v)
  /\ engPc' = "done"
  /\ UNCHANGED <<engCalls, engCaller, engInput, engStrict, engAsync, engFault, engMd, engTree, engAdf, engSync>>
  /\ FrameEng

(***************************************************************************)
(* Forward conversion of one block (markdown-to-adf/ASTBuilder.ts), by the *)
(* token converter (buildADF, convertTokenToNode) and by the mdast         *)
(* converter (buildADFFromMdast, convertMdastNodeToADF; the one the engine *)
(* calls).  A node of the input is a record [type, depth, alt, url, value, *)
(* hasValue, attributes, children, meta]: depth is the depth of a heading, *)
(* alt and url are those of an image, value is the text of a text node or  *)
(* the raw body of a fenced container (hasValue: the field is there),      *)
(* attributes are those of the header of a fenced container, meta is       *)
(* node.data.adfMetadata, or token.metadata as a list of at most one       *)
(* entry.  An output node is a record [type, attrs, content].              *)
(***************************************************************************)
T_mediaSingle == <<"m", "e", "d", "i", "a", "S", "i", "n", "g", "l", "e">>
T_mediaReference ==
  <<"m", "e", "d", "i", "a", "R", "e", "f", "e", "r", "e", "n", "c", "e">>
T_image == <<"i", "m", "a", "g", "e">>
T_tableRow == <<"t", "a", "b", "l", "e", "R", "o", "w">>
K_width == <<"w", "i", "d", "t", "h">>
K_collection == <<"c", "o", "l", "l", "e", "c", "t", "i", "o", "n">>
K_mediaType == <<"m", "e", "d", "i", "a", "T", "y", "p", "e">>
K_textAlign == <<"t", "e", "x", "t", "A", "l", "i", "g", "n">>
V_center == <<"c", "e", "n", "t", "e", "r">>
V_wide == <<"w", "i", "d", "e">>
V_file == <<"f", "i", "l", "e">>
MediaPrefix == <<"m", "e", "d", "i", "a", ":">>
AdfMediaPrefix == <<"a", "d", "f", ":">> \o MediaPrefix

BNode(type, attrs, kids) == [type |-> type, attrs |-> attrs, content |-> kids]
BText(text) == BNode(T_text, <<Attr(T_text, StrVal(text))>>, <<>>)

BlkNode(type, depth, alt, url, value, hasValue, attributes, children, meta) ==
  [type |-> type, depth |-> depth, alt |-> alt, url |-> url, value |-> value,
   hasValue |-> hasValue, attributes |-> attributes, children |-> children, meta |-> meta]
BlkText(value) == BlkNode(T_text, 0, <<>>, <<>>, value, TRUE, <<>>, <<>>, <<>>)
BlkImage(alt, url, meta) == BlkNode(T_image, 0, alt, url, <<>>, FALSE, <<>>, <<>>, meta)
BlkParagraph(children, meta) ==
  BlkNode(T_paragraph, 0, <<>>, <<>>, <<>>, FALSE, <<>>, children, meta)
BlkHeading(depth, meta) ==
  BlkNode(T_heading, depth, <<>>, <<>>, <<>>, FALSE, <<>>, <<BlkText(<<"x">>)>>, meta)
BlkCell(type) == BlkNode(type, 0, <<>>, <<>>, <<>>, FALSE, <<>>, <<BlkText(<<"x">>)>>, <<>>)
BlkRow(n, type) ==
  BlkNode(T_tableRow, 0, <<>>, <<>>, <<>>, FALSE, <<>>, [k \in 1..n |-> BlkCell(type)], <<>>)
BlkTable(rows, meta) == BlkNode(T_table, 0, <<>>, <<>>, <<>>, FALSE, <<>>, rows, meta)
BlkFence(attributes, value, hasValue, children) ==
  BlkNode(T_mediaSingle, 0, <<>>, <<>>, value, hasValue, attributes, children, <<>>)

\* attrs[key] is there and is not falsy
TruthyAttr(attrs, key) ==
  /\ key \in Keys(attrs)
  /\ \E x \in {Lookup(attrs, key)} :
       \/ x.t = "str" /\ x.s # <<>>
       \/ x.t = "num" /\ x.n # 0
       \/ x.t = "bool" /\ x.b

\* extractCustomAttributes(token.metadata, excludeKeys): no metadata, or
\* metadata without attrs, gives {}
ExtractCustomAttributes(meta, excludeKeys) ==
  IF meta = <<>> \/ ~meta[1].hasAttrs THEN <<>>
  ELSE SelectSeq(meta[1].attrs, LAMBDA a : a.key \notin excludeKeys)

\* filterAttributes(attrs, excludeKeys)
FilterAttributes(attrs, excludeKeys) == SelectSeq(attrs, LAMBDA a : a.key \notin excludeKeys)

\* Math.min(Math.max(level, 1), 6)
ClampLevel(level) == IF level < 1 THEN 1 ELSE IF level > 6 THEN 6 ELSE level

\* extractMediaFromContent: every match of
\* /!\[([^\]]*)\]\(media:([^)]+)\)(?:\s*<!-- adf:media ([^>]*) -->)?/g, in order
RECURSIVE ExtractMediaFromContent(_)
ExtractMediaFromContent(s) ==
  LET m == Leftmost(s, MediaReferenceAt)
      a == m.node.attrs
      attrs == <<Attr(K_id, StrVal(a.id)), Attr(K_type, StrVal(V_file))>>
                 \o (IF a.alt # <<>> THEN <<Attr(K_alt, StrVal(a.alt))>> ELSE <<>>)
  IN IF ~m.ok THEN <<>>
     ELSE <<BNode(T_media, attrs, <<>>)>>
            \o ExtractMediaFromContent(SubSeq(s, m.index + m.len + 1, Len(s)))

\* the text a reference to an image is written as
ImageText(img) == <<"!", "[">> \o img.alt \o <<"]", "(">> \o img.url \o <<")">>

\* url.match(/^(?:adf:)?media:(.+)$/): the id, or nothing
MediaIdOf(url) ==
  IF IsAt(MediaPrefix, url, 1) THEN SubSeq(url, 7, Len(url))
  ELSE IF IsAt(AdfMediaPrefix, url, 1) THEN SubSeq(url, 11, Len(url))
  ELSE <<>>

\* url.match(/^(?:adf:)?media:/)
IsMediaUrl(url) == IsAt(MediaPrefix, url, 1) \/ IsAt(AdfMediaPrefix, url, 1)

\* the loop of convertMdastImage over the metadata of the image
RECURSIVE MediaAttrsOf(_, _)
MediaAttrsOf(attrs, meta) ==
  IF meta = <<>> THEN attrs
  ELSE MediaAttrsOf(
         IF Head(meta).nodeType = T_media /\ Head(meta).hasAttrs
           THEN MergeAttrs(attrs, Head(meta).attrs) ELSE attrs,
         Tail(meta))
RECURSIVE MediaSingleAttrsOf(_, _)
MediaSingleAttrsOf(attrs, meta) ==
  IF meta = <<>> THEN attrs
  ELSE MediaSingleAttrsOf(
         IF Head(meta).nodeType = T_mediaSingle /\ Head(meta).hasAttrs
           THEN Head(meta).attrs ELSE attrs,
         Tail(meta))

\* convertMdastImage: nothing (null) or one mediaSingle
ConvertMdastImage(node) ==
  LET mediaId == MediaIdOf(node.url)
      fromMeta == MediaAttrsOf(
                    <<Attr(K_id, StrVal(mediaId)), Attr(K_type, StrVal(V_file))>>, node.meta)
      withAlt == IF node.alt # <<>>
                   THEN MergeAttrs(fromMeta, <<Attr(K_alt, StrVal(node.alt))>>)
                   ELSE fromMeta
      mediaAttrs == IF TruthyAttr(withAlt, K_collection) THEN withAlt
                    ELSE MergeAttrs(withAlt, <<Attr(K_collection, StrVal(<<>>))>>)
  IN IF node.url = <<>> \/ mediaId = <<>> THEN <<>>
     ELSE <<BNode(T_mediaSingle,
                  MergeAttrs(<<Attr(K_layout, StrVal(V_center))>>,
                             MediaSingleAttrsOf(<<>>, node.meta)),
                  <<BNode(T_media, mediaAttrs, <<>>)>>)>>

\* convertMdastInlineNode on a text or an image
ConvertInlineOfBlock(node) ==
  IF node.type = T_image THEN ConvertMdastImage(node) ELSE <<BText(node.value)>>

\* convertMdastInlineNodes
RECURSIVE ConvertInlinesOfBlock(_)
ConvertInlinesOfBlock(ns) ==
  IF ns = <<>> THEN <<>>
  ELSE ConvertInlineOfBlock(Head(ns)) \o ConvertInlinesOfBlock(Tail(ns))

\* the end of convertMdastNodeToADF: if (adfNode) { metadata = getNodeMetadata(node);
\* if (metadata.length > 0) adfNode = applyMetadataToAdfNode(adfNode, metadata) }
MetadataApplied(adfNode, metadata) ==
  IF adfNode = <<>> \/ metadata = <<>> THEN adfNode
  ELSE <<ApplyMetadataToAdfNode(adfNode[1], metadata)>>

\* the first test of convertMdastParagraph
PromotesImage(node) ==
  /\ Len(node.children) = 1
  /\ node.children[1].type = T_image
  /\ node.children[1].url # <<>>
  /\ IsMediaUrl(node.children[1].url)

\* convertMdastParagraph: nothing (null) or one node
ConvertMdastParagraph(node) ==
  LET imageNode == [node.children[1] EXCEPT !.meta = @ \o node.meta]
      adfContent == ConvertInlinesOfBlock(node.children)
  IN IF PromotesImage(node) /\ ConvertMdastImage(imageNode) # <<>>
       THEN ConvertMdastImage(imageNode)
     ELSE IF adfContent = <<>> THEN <<>>
     ELSE <<BNode(T_paragraph, <<>>, adfContent)>>

ConvertMdastHeading(node) ==
  BNode(T_heading, <<Attr(K_level, NumVal(node.depth))>>,
        ConvertInlinesOfBlock(node.children))

\* convertMdastTableCell, of a cell without metadata
ConvertMdastTableCell(node, isHeader) ==
  BNode(IF isHeader THEN T_tableHeader ELSE T_tableCell, <<>>,
        ConvertInlinesOfBlock(node.children))

ConvertMdastTable(node) ==
  BNode(T_table, <<>>,
        [i \in 1..Len(node.children) |->
           BNode(T_tableRow, <<>>,
                 [k \in 1..Len(node.children[i].children) |->
                    ConvertMdastTableCell(node.children[i].children[k], i = 1)])])

\* the case mediaSingle of convertAdfFenceNode; the children of the
\* container are paragraphs
ConvertAdfFenceNode(node) ==
  LET adfContent == IF node.children # <<>>
                   THEN Flatten([k \in 1..Len(node.children) |->
                                   MetadataApplied(
                                     ConvertMdastParagraph(node.children[k]),
                                     node.children[k].meta)])
                   ELSE <<>>
      \* a value that is not there is matched as the text "undefined"
      mediaNodes == IF node.hasValue THEN ExtractMediaFromContent(node.value) ELSE <<>>
      a == node.attributes
  IN BNode(T_mediaSingle,
           (IF TruthyAttr(a, K_layout) THEN <<Attr(K_layout, Lookup(a, K_layout))>> ELSE <<>>)
             \o (IF TruthyAttr(a, K_width) THEN <<Attr(K_width, Lookup(a, K_width))>> ELSE <<>>)
             \o FilterAttributes(a, {K_layout, K_width}),
           IF mediaNodes # <<>> THEN mediaNodes ELSE adfContent)

\* convertMdastNodeToADF: the node of the switch, and then the metadata of
\* the input node applied to it
ConvertMdastBlockToADF(node) ==
  LET adfNode == CASE node.type = T_heading -> <<ConvertMdastHeading(node)>>
                   [] node.type = T_paragraph -> ConvertMdastParagraph(node)
                   [] node.type = T_table -> <<ConvertMdastTable(node)>>
                   [] node.type = T_mediaSingle -> <<ConvertAdfFenceNode(node)>>
                   [] OTHER -> <<>>
  IN MetadataApplied(adfNode, node.meta)

\* convertHeading
ConvertHeading(token) ==
  LET attrs == IF token.meta = <<>> THEN <<>> ELSE token.meta[1].attrs
      level == IF TruthyAttr(attrs, K_level) THEN Lookup(attrs, K_level).n ELSE 1
  IN BNode(T_heading,
           MergeAttrs(<<Attr(K_level, NumVal(ClampLevel(level)))>>,
                      ExtractCustomAttributes(token.meta, {K_level})),
           ConvertInlinesOfBlock(token.children))

\* convertParagraph; the inline content of a token holds no mediaSingle
\* (a reference to a media file gives a mediaReference)
ConvertParagraph(token) ==
  LET customAttrs == ExtractCustomAttributes(token.meta, {})
      adfContent == ConvertInlinesOfBlock(token.children)
  IN IF Len(adfContent) = 1 /\ adfContent[1].type = T_mediaSingle
       THEN [adfContent[1] EXCEPT !.attrs = MergeAttrs(@, customAttrs)]
       ELSE BNode(T_paragraph, customAttrs, adfContent)

\* convertTableCell and convertTableRow, of tokens without metadata
ConvertTableRow(token) ==
  BNode(T_tableRow, <<>>,
        [k \in 1..Len(token.children) |->
           BNode(token.children[k].type, <<>>,
                 ConvertInlinesOfBlock(token.children[k].children))])

ConvertTable(token) ==
  BNode(T_table,
        MergeAttrs(<<Attr(K_isNumberColumnEnabled, BoolVal(FALSE)),
                     Attr(K_layout, StrVal(V_default))>>,
                   ExtractCustomAttributes(token.meta, {})),
        [i \in 1..Len(token.children) |-> ConvertTableRow(token.children[i])])

\* convertMediaSingle
ConvertMediaSingle(token) ==
  LET a == token.attributes
      layout == IF TruthyAttr(a, K_layout) THEN Lookup(a, K_layout) ELSE StrVal(V_center)
      attrs == MergeAttrs(<<Attr(K_layout, layout)>>,
                          ExtractCustomAttributes(token.meta, {K_layout, K_width}))
  IN BNode(T_mediaSingle,
           IF TruthyAttr(a, K_width)
             THEN MergeAttrs(attrs, <<Attr(K_width, Lookup(a, K_width))>>) ELSE attrs,
           ExtractMediaFromContent(token.value))

\* convertTokenToNode
ConvertTokenToNode(token) ==
  CASE token.type = T_heading -> <<ConvertHeading(token)>>
    [] token.type = T_paragraph -> <<ConvertParagraph(token)>>
    [] token.type = T_table -> <<ConvertTable(token)>>
    [] token.type = T_mediaSingle -> <<ConvertMediaSingle(token)>>
    [] OTHER -> <<>>

MaxBlockMeta == 2  \* annotations attached to one block
MaxBody == 2       \* paragraphs in the body of a mediaSingle container
MaxInline == 2     \* children of a paragraph

\* the metadata annotations attach to a block
BlkMetas ==
  { Metadata(T_heading, <<Attr(K_level, NumVal(9))>>),
    Metadata(T_heading, <<Attr(K_id, StrVal(<<"a">>))>>),
    Metadata(T_paragraph, <<Attr(K_textAlign, StrVal(V_center))>>),
    SimpleMetadata(T_paragraph),
    Metadata(T_table, <<Attr(K_layout, StrVal(V_wide))>>),
    Metadata(T_table, <<Attr(K_isNumberColumnEnabled, BoolVal(TRUE))>>),
    Metadata(T_mediaSingle, <<Attr(K_layout, StrVal(V_wide))>>),
    Metadata(T_mediaSingle, <<Attr(K_width, NumVal(80))>>),
    Metadata(T_media, <<Attr(K_width, NumVal(80))>>) }
BlkMetaLists == SeqsUpTo(BlkMetas, 0, MaxBlockMeta)

\* the images of the model: ![a](media:i), ![](adf:media:j) with an
\* annotation of its own, ![a](media:) without an id, and ![a](u.png)
BlkImages ==
  { BlkImage(<<"a">>, MediaPrefix \o <<"i">>, <<>>),
    BlkImage(<<>>, AdfMediaPrefix \o <<"j">>,
            <<Metadata(T_mediaSingle, <<Attr(K_width, NumVal(50))>>)>>),
    BlkImage(<<"a">>, MediaPrefix, <<>>),
    BlkImage(<<"a">>, <<"u", ".", "p", "n", "g">>, <<>>) }
BlkInline == BlkImages \cup {BlkText(<<"x">>)}

\* the headers of a mediaSingle container
FenceHeaders ==
  { <<>>, <<Attr(K_layout, StrVal(V_wide))>>, <<Attr(K_width, NumVal(80))>>,
    <<Attr(K_layout, StrVal(V_wide)), Attr(K_width, NumVal(80))>> }
\* the body of a container: images, one to a paragraph
FenceBodies ==
  SeqsUpTo({im \in BlkImages : im.meta = <<>>}, 0, MaxBody)
RECURSIVE BodyText(_)
BodyText(body) ==
  IF body = <<>> THEN <<>>
  ELSE ImageText(Head(body))
         \o (IF Len(body) > 1 THEN <<"\n", "\n">> ELSE <<>>) \o BodyText(Tail(body))
BodyChildren(body) == [k \in 1..Len(body) |-> BlkParagraph(<<body[k]>>, <<>>)]
\* the container as the extension gives it (the raw body), and as the engine
\* leaves it (the body parsed into children, the raw body deleted); a raw
\* body is empty or holds a reference to a media file
FenceForms(body) ==
  {f \in { [hasValue |-> TRUE, children |-> FALSE],
           [hasValue |-> FALSE, children |-> TRUE] } :
     f.hasValue => (body = <<>> \/ ExtractMediaFromContent(BodyText(body)) # <<>>)}

\* the blocks of the generic tree, their annotations drawn from metaLists
MdastInputs(metaLists) ==
  {BlkHeading(d, meta) : d \in 1..6, meta \in metaLists}
    \cup {BlkTable([i \in 1..n |-> BlkRow(1, T_tableCell)], meta) :
            n \in 1..2, meta \in metaLists}
    \cup {BlkParagraph(kids, meta) :
            kids \in SeqsUpTo(BlkInline, 1, MaxInline), meta \in metaLists}
    \cup UNION {{BlkFence(h, IF f.hasValue THEN BodyText(body) ELSE <<>>, f.hasValue,
                         IF f.children THEN BodyChildren(body) ELSE <<>>) :
                   h \in FenceHeaders, f \in FenceForms(body)} : body \in FenceBodies}

\* token.metadata: none, or the one entry of the token
TokenMetas(type) == {<<>>} \cup {<<m>> : m \in {x \in BlkMetas : x.nodeType = type}}
TokenInputs ==
  {BlkHeading(d, <<Metadata(T_heading, <<Attr(K_level, NumVal(d))>> \o extra)>>) :
     d \in 0..7, extra \in {<<>>, <<Attr(K_id, StrVal(<<"a">>))>>}}
    \cup {BlkTable([i \in 1..n |->
                     BlkRow(1, IF i = 1 THEN T_tableHeader ELSE T_tableCell)], meta) :
            n \in 1..2, meta \in TokenMetas(T_table)}
    \cup {BlkParagraph(kids, meta) :
            kids \in SeqsUpTo({BlkText(<<"x">>)}, 1, MaxInline), meta \in TokenMetas(T_paragraph)}
    \cup {BlkFence(h, BodyText(body), TRUE, <<>>) :
            h \in FenceHeaders, body \in {b \in FenceBodies : FenceForms(b) # {}}}

IdleBlk ==
  /\ blkPath = "none"
  /\ blkIn = BlkText(<<>>)
  /\ blkOut = <<>>
  /\ blkPc = "idle"

InitBlk ==
  /\ \/ blkPath = "mdast" /\ blkIn \in MdastInputs(BlkMetaLists)
     \/ blkPath = "tokens" /\ blkIn \in TokenInputs
  /\ blkOut = <<>>
  /\ blkPc = "ready"

\* convertMdastNodesToADF, or convertTokensToNodes, on the one block
BlkConvert ==
  /\ blkPc = "ready"
  /\ blkOut' = IF blkPath = "mdast" THEN ConvertMdastBlockToADF(blkIn)
               ELSE ConvertTokenToNode(blkIn)
  /\ blkPc' = "done"
  /\ UNCHANGED <<blkPath, blkIn>>
  /\ FrameBlk

(***************************************************************************)
(* Reverse conversion of inline content: convertAdfInlineToMdast           *)
(* (ASTBuilder.ts).  A mark is a record [type, href, title]; href and      *)
(* title are those of the attrs of a link mark, each a string or           *)
(* undefined.  An mdast node is a record [type, value, url, title,         *)
(* children]; a property the code does not set is undefined.               *)
(***************************************************************************)
MaxMarks == 3      \* marks of one text leaf

Undef == [def |-> FALSE, s |-> <<>>]
Str(x) == [def |-> TRUE, s |-> x]
PlainMark(type) == [type |-> type, href |-> Undef, title |-> Undef]
LinkMark(href, title) == [type |-> "link", href |-> href, title |-> title]
AdfText(text, marks) == [type |-> "text", text |-> text, marks |-> marks]
RevNode(type, value, url, title, children) ==
  [type |-> type, value |-> value, url |-> url, title |-> title, children |-> children]
RevText(value) == RevNode("text", Str(value), Undef, Undef, <<>>)

\* one turn of the loop over node.marks: the switch on mark.type
WrapResult(result, mark, node) ==
  CASE mark.type = "strong" -> RevNode("strong", Undef, Undef, Undef, <<result>>)
    [] mark.type = "em" -> RevNode("emphasis", Undef, Undef, Undef, <<result>>)
    [] mark.type = "code" -> RevNode("inlineCode", Str(node.text), Undef, Undef, <<>>)
    [] mark.type = "link" -> RevNode("link", Undef, mark.href, Undef, <<result>>)
    [] OTHER -> result

RECURSIVE WrapResults(_, _, _)
WrapResults(result, marks, node) ==
  IF marks = <<>> THEN result
  ELSE WrapResults(WrapResult(result, Head(marks), node), Tail(marks), node)

\* the function convertAdfInlineToMdast maps over the content
ConvertAdfInlineToMdast(node) ==
  IF node.type = "text" THEN WrapResults(RevText(node.text), node.marks, node)
  ELSE RevText(<<"[", node.type, "]">>)

RevMarks ==
  { PlainMark("strong"), PlainMark("em"), PlainMark("code"), PlainMark("strike"),
    LinkMark(Str(<<"u">>), Undef), LinkMark(Str(<<"u">>), Str(<<"t">>)) }
RevInputs ==
  {[AdfText(<<"x">>, ms) EXCEPT !.type = ty] :
     ty \in {"text", "mention"}, ms \in SeqsUpTo(RevMarks, 0, MaxMarks)}

IdleRev ==
  /\ revIn = AdfText(<<>>, <<>>)
  /\ revOut = RevText(<<>>)
  /\ revPc = "idle"

InitRev ==
  /\ revIn \in RevInputs
  /\ revOut = RevText(<<>>)
  /\ revPc = "ready"

RevConvert ==
  /\ revPc = "ready"
  /\ revOut' = ConvertAdfInlineToMdast(revIn)
  /\ revPc' = "done"
  /\ UNCHANGED revIn
  /\ FrameRev

(***************************************************************************)
(* Inline cards: the end of convertMdastParagraph (ASTBuilder.ts), that is *)
(* convertMdastInlineNodes on the children of the paragraph and then       *)
(* postProcessInlineCards on the result and the children.  The html nodes  *)
(* of the model are directives, and stand among the children of the        *)
(* paragraph itself.                                                       *)
(***************************************************************************)
MaxCardKids == 4   \* children of the paragraph

MdHtml(v) == [type |-> "html", value |-> v, children |-> <<>>, url |-> <<>>]
\* <!-- adf:inlineCard -->
InlineCardDirective ==
  CommentOpen \o <<" ">> \o AdfPrefix \o D_inlineCard \o <<" ">> \o CommentClose

\* isAdfProcessingDirective
IsAdfProcessingDirective(value) ==
  Includes(value, AdfPrefix \o D_inlineCard) \/ Includes(value, AdfPrefix \o D_blockCard)

\* convertMdastInlineNodes on the children: a directive gives no node
RECURSIVE CardContent(_)
CardContent(ns) ==
  IF ns = <<>> THEN <<>>
  ELSE (IF Head(ns).type = "html" /\ IsAdfProcessingDirective(Head(ns).value) THEN <<>>
        ELSE ConvertMdastInlineNode(Head(ns)))
         \o CardContent(Tail(ns))

\* the loop that fills linksToConvert
LinksToConvert(originalNodes) ==
  {originalNodes[i].url : i \in
     {j \in 1..(Len(originalNodes) - 1) :
        /\ originalNodes[j].type = "link"
        /\ originalNodes[j + 1].type = "html"
        /\ Includes(originalNodes[j + 1].value, AdfPrefix \o D_inlineCard)}}

\* node.marks.find(mark => mark.type === 'link')
LinkMarkOf(node) ==
  node.marks[Min({k \in 1..Len(node.marks) : node.marks[k].type = "link"})]

\* the test of the map of postProcessInlineCards
IsConverted(node, links) ==
  /\ node.type = "text"
  /\ \E k \in 1..Len(node.marks) : node.marks[k].type = "link"
  /\ LinkMarkOf(node).attrs.href # <<>>
  /\ LinkMarkOf(node).attrs.href \in links

PostProcessInlineCards(adfContent, originalNodes) ==
  IF originalNodes = <<>> \/ LinksToConvert(originalNodes) = {} THEN adfContent
  ELSE [k \in 1..Len(adfContent) |->
          IF IsConverted(adfContent[k], LinksToConvert(originalNodes))
            THEN TokenNode("inlineCard", [url |-> LinkMarkOf(adfContent[k]).attrs.href])
            ELSE adfContent[k]]

\* the children of the model: links to u and to v, a link of the card:
\* scheme, a link to u inside strong, a text, and the directive
CardPieces ==
  { MdWrap("link", <<"u">>, <<MdText(<<"a">>)>>),
    MdWrap("link", <<"v">>, <<MdText(<<"b">>)>>),
    MdWrap("link", CardPrefix \o <<"u">>, <<MdText(<<"c">>)>>),
    MdWrap("strong", <<>>, <<MdWrap("link", <<"u">>, <<MdText(<<"d">>)>>)>>),
    MdText(<<"t">>),
    MdHtml(InlineCardDirective) }
CardInputs == SeqsUpTo(CardPieces, 1, MaxCardKids)

IdleCard ==
  /\ cardKids = <<>>
  /\ cardIn = <<>>
  /\ cardOut = <<>>
  /\ cardPc = "idle"

InitCard ==
  /\ cardKids \in CardInputs
  /\ cardIn = <<>>
  /\ cardOut = <<>>
  /\ cardPc = "ready"

\* content = convertMdastInlineNodes(node.children);
\* processedContent = postProcessInlineCards(content, node.children)
CardParagraph ==
  /\ cardPc = "ready"
  /\ cardIn' = CardContent(cardKids)
  /\ cardOut' = PostProcessInlineCards(CardContent(cardKids), cardKids)
  /\ cardPc' = "done"
  /\ UNCHANGED cardKids
  /\ FrameCard

(***************************************************************************)
(* cleanupEmptyParagraphs on its own: the last step of convertMdastToAdf   *)
(* and convertMdastToAdfSync, from a document buildADFFromMdast may have   *)
(* returned.  A text is a sequence of lines; a blank line stands for white *)
(* space.                                                                  *)
(***************************************************************************)
MaxCleanBlocks == 2  \* top-level blocks of a document given to the cleanup

Blank == <<Ln("blank", "")>>
Inked == <<Ln("text", "x")>>
HardBreak == BlockNode("hardBreak", <<>>, <<>>)
Para(leaves) == BlockNode("paragraph", <<>>, leaves)
Panel(blocks) == BlockNode("panel", <<[key |-> "panelType", val |-> "info"]>>, blocks)
ListOf(items) ==
  BlockNode("bulletList", <<>>, [k \in 1..Len(items) |-> BlockNode("listItem", <<>>, items[k])])

\* paragraphs that hold white space only
BlankParagraphs ==
  { Para(<<PlainText(Blank)>>), Para(<<PlainText(<<>>)>>),
    Para(<<PlainText(<<>>), PlainText(Blank \o Blank)>>) }
\* paragraphs that hold something else, white space beside it or not
InkedParagraphs ==
  { Para(<<PlainText(Inked)>>), Para(<<PlainText(Blank), PlainText(Inked)>>),
    Para(<<PlainText(Blank \o Inked)>>), Para(<<PlainText(Blank), HardBreak>>) }
\* containers, with paragraphs of both kinds up to two containers below
CleanContainers ==
  { Panel(<<Para(<<PlainText(Blank)>>)>>),
    Panel(<<Para(<<PlainText(Inked)>>), Para(<<PlainText(<<>>)>>)>>),
    Panel(<<Para(<<PlainText(Blank)>>), Para(<<PlainText(Blank), HardBreak>>),
            Para(<<PlainText(<<>>)>>)>>),
    ListOf(<< <<Para(<<PlainText(Blank)>>)>>,
              <<Para(<<PlainText(Inked)>>), Panel(<<Para(<<PlainText(Blank)>>)>>)>> >>),
    Panel(<<ListOf(<< <<Para(<<PlainText(Blank)>>), Para(<<PlainText(Blank \o Inked)>>)>> >>)>>),
    BlockNode("rule", <<>>, <<>>) }
CleanBlocks == BlankParagraphs \cup InkedParagraphs \cup CleanContainers
CleanDocs == {Doc(cs) : cs \in SeqsUpTo(CleanBlocks, 0, MaxCleanBlocks)}

InitClean ==
  /\ engInput = JsValue("undefined", 0)
  /\ engStrict = FALSE
  /\ engAsync \in BOOLEAN
  /\ engFault = "none"
  /\ engMd = <<>>
  /\ engTree = <<>>
  /\ engAdf \in CleanDocs
  /\ engResult = NoResult
  /\ engSync = NoResult
  /\ engCalls = 1
  /\ engCaller = <<>>
  /\ engPc = "cleanup"

(***************************************************************************)
(* Specifications, one per component.                                      *)
(***************************************************************************)
InitFor(c) ==
  /\ IF c = "scan" THEN InitScan ELSE IdleScan
  /\ IF c = "mark" THEN InitMark ELSE IdleMark
  /\ IF c = "fence" THEN InitFence ELSE IdleFence
  /\ IF c = "cons" THEN InitCons ELSE IdleCons
  /\ IF c = "meta" THEN InitMeta ELSE IdleMeta
  /\ IF c = "engine" THEN InitEng ELSE IF c = "cleanup" THEN InitClean ELSE IdleEng
  /\ IF c = "annot" THEN InitAnn ELSE IdleAnn
  /\ IF c = "span" THEN InitSpan ELSE IdleSpan
  /\ IF c = "date" THEN InitDate ELSE IdleDate
  /\ IF c = "block" THEN InitBlk ELSE IdleBlk
  /\ IF c = "reverse" THEN InitRev ELSE IdleRev
  /\ IF c = "card" THEN InitCard ELSE IdleCard

NextScan == ScanToken \/ ScanRest \/ ScanReturn

NextMark == ConvertInline

NextFence == FencePass \/ FenceReturn

NextCons == ConsPush \/ ConsKeep \/ ConsNest \/ ConsReturn
NextMeta == MetaEmit \/ MetaParse \/ MetaSkip \/ MetaApply
NextEngine ==
  \/ EngValidate \/ EngPreprocess \/ EngParse \/ EngMetadata \/ EngFence
  \/ EngFrontmatter \/ EngBuild \/ EngCleanup \/ EngCatchInner \/ EngCatch
  \/ EngCallAsync

SpecScan == InitFor("scan") /\ [][NextScan]_vars
SpecMark == InitFor("mark") /\ [][NextMark]_vars
SpecFence == InitFor("fence") /\ [][NextFence]_vars
SpecCons == InitFor("cons") /\ [][NextCons]_vars
SpecMeta == InitFor("meta") /\ [][NextMeta]_vars
SpecEngine == InitFor("engine") /\ [][NextEngine]_vars
NextAnnot == AnnVisit \/ AnnRemoveMarked
SpecAnnot == InitFor("annot") /\ [][NextAnnot]_vars

NextDate == DateProcess
SpecDate == InitFor("date") /\ [][NextDate]_vars
NextSpan == SpanStep \/ SpanReturn
SpecSpan == InitFor("span") /\ [][NextSpan]_vars

\* an engine that is called again and again, and the annotation stage on a
\* tree of its own
NextCalls == NextEngine \/ EngCallAgain \/ NextAnnot
SpecCalls == (InitFor("engine") \/ InitFor("annot")) /\ [][NextCalls]_vars

(***************************************************************************)
(* Properties of the Mark Resolver.                                        *)
(***************************************************************************)
HasMark(node, t) == \E k \in 1..Len(node.marks) : node.marks[k].type = t

\* C1 -- code mark exclusivity: in the inline nodes returned for inlineCode
\* nested at any depth inside strong, emphasis, delete and link, every text
\* leaf that carries the code mark carries no other mark.
C1_CodeMarkExclusive ==
  markPc = "done" =>
    \A k \in 1..Len(adfOut) :
      HasMark(adfOut[k], "code") => adfOut[k].marks = <<Mark("code", NoAttrs)>>

(***************************************************************************)
(* Properties of the Social Token Scanner.                                 *)
(***************************************************************************)
\* the smallest match.index over the patterns that match s
LeastIndex(s) ==
  LET ms == PatternMatches(s)
  IN Min({ms[k].index : k \in {j \in 1..Len(ms) : ms[j].ok}})

\* C8 -- leftmost-earliest token precedence: every iteration that emits a
\* token emits the token of a pattern whose match starts at the smallest
\* offset of the remaining text, wherever that pattern stands in the list,
\* and consumes the text up to the end of that match; the emitted nodes
\* stand in the order of their positions in the input.
C8_LeftmostEarliest ==
  [][ remaining' # remaining =>
        LET ms == PatternMatches(remaining)
        IN /\ \E k \in 1..Len(ms) :
                /\ ms[k].ok
                /\ ms[k].index = LeastIndex(remaining)
                /\ nodes'[Len(nodes')] = ms[k].node
                /\ spans'[Len(spans')].to = Consumed + ms[k].index + ms[k].len
                /\ Len(remaining') = Len(remaining) - ms[k].index - ms[k].len
           /\ \A a, b \in 1..Len(spans') :
                a < b => spans'[a].from < spans'[b].from ]_vars

\* a pattern later in the list (emoji) has produced the first token although
\* a pattern earlier in the list (mention) matches further right
C8_Witness ==
  /\ Len(nodes) >= 2
  /\ nodes[1].type = "emoji"
  /\ nodes[2].type = "mention"

\* the spans of the emitted nodes tile the content, and every plain-text
\* node holds exactly the characters of its span
Tiles ==
  /\ Len(spans) = Len(nodes)
  /\ IF spans = <<>> THEN Len(content) = 0
     ELSE /\ spans[1].from = 0
          /\ spans[Len(spans)].to = Len(content)
          /\ \A k \in 1..(Len(spans) - 1) : spans[k].to = spans[k + 1].from
  /\ \A k \in 1..Len(nodes) :
       nodes[k].type = "text" =>
         nodes[k].text = Substring(content, spans[k].from, spans[k].to)

\* C9 -- scanning is total: when the scanner returns, every character of the
\* content belongs to exactly one plain-text node or to the syntax of exactly
\* one token, in the original order.
C9_ScanningIsTotal == scanPc = "done" => Tiles

(***************************************************************************)
(* Properties of the Fence Block Resolver.                                 *)
(***************************************************************************)
FenceKinds == {"panel", "expand", "nestedExpand", "mediaSingle", "mediaGroup"}

\* a code block whose language is a container kind
FenceCode(n) == n.type = "code" /\ n.lang \in FenceKinds

\* a text leaf whose trimmed content matches the full fence pattern
FenceText(n) ==
  /\ n.type = "text"
  /\ LET t == Trim(n.value)
     IN Len(t) >= 3 /\ t[1].k = "tilde" /\ t[1].info \in FenceKinds
        /\ t[Len(t)] = Ln("tilde", "")

\* some node at some depth is still fence syntax
RECURSIVE UnresolvedIn(_)
UnresolvedIn(ns) ==
  \E k \in 1..Len(ns) :
    FenceCode(ns[k]) \/ FenceText(ns[k]) \/ UnresolvedIn(ns[k].children)

\* the number of fence layers nested inside one another in a tree of the parser
RECURSIVE LayerDepth(_)
LayerDepth(ns) ==
  IF ns = <<>> THEN 0
  ELSE Max({ IF FenceCode(ns[k]) THEN 1 + LayerDepth(Parse(ns[k].value))
             ELSE IF FenceText(ns[k])
               THEN LET t == Trim(ns[k].value)
                    IN 1 + LayerDepth(Parse(SubSeq(t, 2, Len(t) - 1)))
             ELSE LayerDepth(ns[k].children) : k \in 1..Len(ns) })

\* the number of container nodes nested inside one another
RECURSIVE ContainerDepth(_)
ContainerDepth(ns) ==
  IF ns = <<>> THEN 0
  ELSE Max({ (IF ns[k].type = "adfFence" THEN 1 ELSE 0)
               + ContainerDepth(ns[k].children) : k \in 1..Len(ns) })

\* res is what a resolved tree holds in the place of the parsed node orig
StandsFor(res, orig) ==
  IF FenceCode(orig)
    THEN res.type = "adfFence" /\ res.nodeType = orig.lang /\ res.src = orig.value
  ELSE IF orig.type = "paragraph"
    THEN res.type = "paragraph" /\ Len(res.children) = Len(orig.children)
  ELSE res = orig

\* every container at every depth holds the parse of its inner text
RECURSIVE ContainersParsed(_)
ContainersParsed(ns) ==
  \A k \in 1..Len(ns) :
    /\ ns[k].type = "adfFence" =>
         LET parsed == Parse(ns[k].src)
         IN /\ Len(ns[k].children) = Len(parsed)
            /\ \A c \in 1..Len(parsed) : StandsFor(ns[k].children[c], parsed[c])
            /\ Trim(ns[k].src) # <<>> => ns[k].children # <<>>
    /\ ContainersParsed(ns[k].children)

\* every container at every depth has at least one child
RECURSIVE ContainersNonEmpty(_)
ContainersNonEmpty(ns) ==
  \A k \in 1..Len(ns) :
    /\ ns[k].type = "adfFence" => ns[k].children # <<>>
    /\ ContainersNonEmpty(ns[k].children)

\* C4 -- when the resolver has returned, no node at any depth is a code
\* block whose language is a container kind or a text leaf that matches the
\* full fence pattern, every container holds the parse of its inner text,
\* and every container whose inner text has a non-blank line has children.
C4_FencesResolved ==
  fencePc = "done" =>
    /\ ~UnresolvedIn(fenceTree)
    /\ ContainersParsed(fenceTree)

\* containers nested three deep have been resolved
C4_Witness ==
  /\ fencePc = "done"
  /\ LayerDepth(fenceIn) = 3
  /\ ContainerDepth(fenceTree) = 3
  /\ ContainersNonEmpty(fenceTree)

\* C4 as stated: on trees nested up to 3 deep nothing is left unresolved and
\* every container produced has non-empty children.
C4_EveryContainerNonEmpty ==
  (fencePc = "done" /\ LayerDepth(fenceIn) <= 3) =>
    /\ ~UnresolvedIn(fenceTree)
    /\ ContainersNonEmpty(fenceTree)

\* the number of steps the loop can still take
FenceVariant == (maxPasses - passCount) + (IF fencePc = "loop" THEN 1 ELSE 0)

\* C5 -- the resolver returns after at most maxPasses passes: the pass count
\* never exceeds maxPasses and every step of the loop lowers FenceVariant,
\* which is never negative; a pass is only made at the start or after a pass
\* that made a replacement, so the loop stops after the first pass that
\* makes none.
C5_PassesBounded ==
  /\ [](passCount <= maxPasses /\ FenceVariant >= 0)
  /\ [](fencePc = "done" =>
          passCount >= 1 /\ (replaced = 0 \/ passCount = maxPasses))
  /\ [][/\ FenceVariant' < FenceVariant
        /\ passCount' # passCount =>
             /\ passCount' = passCount + 1
             /\ replaced = -1 \/ replaced > 0
             /\ (replaced' = 0) <=> (fenceTree' = fenceTree)]_vars

\* a pass that made replacements, then a pass that made none, then the return
C5_Witness ==
  /\ fencePc = "done"
  /\ passCount = 2
  /\ replaced = 0
  /\ fenceTree # fenceIn

\* C6 -- a single pass resolves every layer: after the first pass nothing at
\* any depth is fence syntax and the containers are nested as deep as the
\* fences were, also deeper than maxPasses; the loop makes at most 2 passes.
C6_AllLayersInOnePass ==
  /\ passCount <= 2
  /\ passCount >= 1 =>
       /\ ~UnresolvedIn(fenceTree)
       /\ ContainerDepth(fenceTree) = LayerDepth(fenceIn)

\* fences nested deeper than maxPasses have all become containers
C6_Witness ==
  /\ fencePc = "done"
  /\ LayerDepth(fenceIn) > maxPasses
  /\ ContainerDepth(fenceTree) = LayerDepth(fenceIn)
  /\ ~UnresolvedIn(fenceTree)

\* C6 as stated: a pass resolves one layer, and fences nested deeper than
\* maxPasses come back with the outer layers as containers and the deepest
\* layer unresolved.
C6_OneLayerPerPass ==
  /\ ContainerDepth(fenceTree) <= passCount
  /\ (fencePc = "done" /\ LayerDepth(fenceIn) > maxPasses) =>
       /\ ContainerDepth(fenceTree) = maxPasses
       /\ UnresolvedIn(fenceTree)

(***************************************************************************)
(* Properties of the nesting consolidation.                                *)
(***************************************************************************)
\* the sibling lists of the result: the result itself and the content of
\* each of its blocks
SiblingLists == {consOut} \cup {consOut[k].content : k \in 1..Len(consOut)}

\* the blocks with ids a and b stand next to each other, in this order, in
\* one sibling list
AdjacentSiblings(a, b) ==
  \E l \in SiblingLists :
    \E k \in 1..(Len(l) - 1) : l[k].id = a /\ l[k + 1].id = b

\* the block with id b is a child of the block with id a
ChildOf(b, a) ==
  \E k \in 1..Len(consOut) :
    consOut[k].id = a /\ \E c \in 1..Len(consOut[k].content) : consOut[k].content[c].id = b

\* positions p, p + 1 of the argument hold two panels or two expands
SameKindPair(p) ==
  /\ p + 1 <= Len(consIn)
  /\ consIn[p].type \in {"panel", "expand"}
  /\ consIn[p + 1].type = consIn[p].type

\* C10 -- a panel or expand that directly follows a container of its own
\* kind is never made a child of it, and the blocks of a run of consecutive
\* panels (or expands) are still siblings of each other, in the same order.
C10_SameKindStaySiblings ==
  consPc = "done" =>
    \A p \in 1..Len(consIn) :
      SameKindPair(p) => ~ChildOf(p + 1, p) /\ AdjacentSiblings(p, p + 1)

\* a run of panels that follows an expand has been taken by it as a whole
C10_Witness ==
  /\ consPc = "done"
  /\ \E p \in 1..Len(consIn) :
       /\ SameKindPair(p)
       /\ \E q \in 1..Len(consIn) : ChildOf(p, q) /\ ChildOf(p + 1, q)

(***************************************************************************)
(* Properties of the annotation round trip.                                *)
(***************************************************************************)
\* the attribute of the node written out is back on the node read, with its
\* value and type
Restored(a) ==
  /\ a.key \in Keys(metaOut.attrs)
  /\ Lookup(metaOut.attrs, a.key) = a.val

\* C7: after the round trip (generateMetadataComment, parseAdfMetadataComment,
\* applyMetadataToAdfNode) every non-implied attribute of the node is restored
\* with its original value and type.
C7_RoundTripRestores ==
  metaPc = "done" =>
    \A k \in 1..Len(metaNode.attrs) :
      ~IsImplied(metaNode.type, metaNode.attrs[k]) => Restored(metaNode.attrs[k])

(***************************************************************************)
(* Properties of the Conversion Engine.                                    *)
(***************************************************************************)
\* a list of nodes
IsNodeList(ns) == DOMAIN ns = 1..Len(ns) /\ \A k \in 1..Len(ns) : ns[k].type # "null"

IsRootDoc(doc) == doc.version = 1 /\ doc.type = "doc" /\ IsNodeList(doc.content)

\* C2: in non-strict mode convert and convertAsync never raise: whatever the
\* argument and whichever stage fails, the call returns a document with
\* version 1, type doc and a list of nodes as content.
C2_NonStrictReturnsDoc ==
  ~engStrict =>
    /\ engResult.kind # "raised"
    /\ engPc = "done" => engResult.kind = "returned" /\ IsRootDoc(engResult.doc)

\* a non-strict call in which a stage raised has returned a document
C2_Witness ==
  /\ engPc = "done" /\ ~engStrict /\ engAsync
  /\ engFault = "fence" /\ engTree # <<>>
  /\ engResult.kind = "returned" /\ engResult.doc.content # <<>>

\* C3: for an argument that is not a string or is the empty string, convert
\* and convertAsync raise in strict mode and return exactly the empty
\* document in non-strict mode.
C3_InvalidInput ==
  (engPc = "done" /\ (engInput.t # "string" \/ engInput.v = <<>>)) =>
    engResult = IF engStrict THEN Raised ELSE Returned(EmptyDoc)

\* a strict call on the empty string has raised
C3_Witness ==
  /\ engPc = "done" /\ engStrict
  /\ engInput = JsString(<<>>)
  /\ engResult.kind = "raised"

\* a stage after parsing raised in this call
PostParseFaults == {"metadata", "fence", "build", "cleanup"}

\* C11: in non-strict mode, when a stage after parsing (annotation processing,
\* fence resolution, schema building, cleanup) raises on a non-empty input,
\* convert returns the global fallback: one paragraph holding one text node
\* whose text is the raw input.
C11_StageFailureGivesFallback ==
  (/\ engPc = "done" /\ ~engStrict /\ ~engAsync
   /\ engFault \in PostParseFaults
   /\ engInput.t = "string" /\ ~IsBlank(engInput.v)) =>
    engResult = Returned(FallbackDoc(engInput.v))

\* C12: on the same string, with the same options (and the same stage
\* failing), convertAsync returns the document convert returned, and raises
\* exactly when convert raised.
C12_SyncAsyncAgree ==
  (engPc = "done" /\ engAsync /\ engInput.t = "string") => engResult = engSync

\* the document a fault-free conversion of the lines builds
ConvertedDoc(ls) ==
  IF IsBlank(ls) THEN EmptyDoc
  ELSE CleanupEmptyParagraphs(BuildADFFromMdast(
         PostProcessAdfFenceBlocks(ParseMarkdown(PreprocessNestedAdfBlocks(ls)))))

\* the argument is a string that starts with a frontmatter block that is no YAML
MalformedFrontmatter ==
  /\ engInput.t = "string" /\ engInput.v # <<>>
  /\ engInput.v[1].k = "yaml" /\ engInput.v[1].info \in {"badyaml", "badjson"}

\* C14: on a malformed frontmatter block, convert and convertAsync raise in
\* strict mode; in non-strict mode they return the document of the same
\* markdown without the frontmatter block.
C14_MalformedFrontmatter ==
  (engPc = "done" /\ engFault = "none" /\ MalformedFrontmatter) =>
    engResult = IF engStrict THEN Raised
                ELSE Returned(ConvertedDoc(Tail(engInput.v)))

(***************************************************************************)
(* Properties of parseAdfMetadataComment on the legacy form.               *)
(***************************************************************************)
\* the payloads of the model that are no JSON
MalformedPayloads == LegacyPayloads \ {<<"{", "}">>, <<"1", "2">>}

\* the payload is wrapped in braces
Braced(p) == Len(p) >= 2 /\ p[1] = "{" /\ p[Len(p)] = "}"

\* the annotations have been read
MetaRead == metaPc \in {"parsed", "done"}

\* what is left of attrs='PAYLOAD' as the value of the attribute attrs: the
\* text from the opening quote to the first white space, or to the closing
\* quote when the payload holds none
LegacyValue(p) ==
  IF FirstIn(p, 1, SpaceChar) = 0 THEN Quote \o p \o Quote
  ELSE Quote \o SubSeq(p, 1, FirstIn(p, 1, SpaceChar) - 1)

Siblings(tree, path) ==
  {j \in 1..Len(NodeAt(tree, Front(path)).children) :
     j # Last(path) /\ NotAnnotation(NodeAt(tree, Front(path)).children[j])}
Later(tree, path) == {j \in Siblings(tree, path) : j > Last(path)}
Earlier(tree, path) == {j \in Siblings(tree, path) : j < Last(path)}

\* the target the four rules name for the annotation at the path
Resolution(tree, path) ==
  CASE NodeAt(tree, Front(path)).type \in {"heading", "paragraph", "tableCell", "tableHeader"} ->
         [found |-> TRUE, path |-> Front(path)]
    [] OTHER ->
         CASE Later(tree, path) # {} ->
                [found |-> TRUE, path |-> Append(Front(path), Min(Later(tree, path)))]
           [] Later(tree, path) = {} /\ Earlier(tree, path) # {} ->
                [found |-> TRUE, path |-> Append(Front(path), Max(Earlier(tree, path)))]
           [] OTHER ->
                IF Front(path) # <<>> THEN [found |-> TRUE, path |-> Front(path)]
                ELSE [found |-> FALSE, path |-> <<>>]

\* C16: every annotation the visit has reached got the target the four rules
\* name, in their order: its parent when that is a heading, a paragraph or a
\* table cell; else the nearest later sibling that is no annotation; else the
\* nearest earlier one; else its parent; and the root is never a target
C16_TargetOrder ==
  \A k \in 1..Len(annFound) :
    /\ annFound[k].target = Resolution(annIn, annFound[k].path)
    /\ annFound[k].target.found => annFound[k].target.path # <<>>

\* an annotation with siblings on both sides took the later one, and another
\* one with only earlier siblings took the nearest of them
C16_Witness ==
  /\ \E k \in 1..Len(annFound) :
       /\ Len(annFound[k].path) = 1
       /\ Earlier(annIn, annFound[k].path) # {}
       /\ annFound[k].target.found
       /\ Last(annFound[k].target.path) > Last(annFound[k].path)
  /\ \E k \in 1..Len(annFound) :
       /\ annFound[k].target.found
       /\ Len(annFound[k].target.path) = Len(annFound[k].path)
       /\ Last(annFound[k].target.path) < Last(annFound[k].path)

\* the tree without the metadata the visit attached
RECURSIVE Bare(_)
Bare(node) ==
  [type |-> node.type, value |-> node.value, adfMetadata |-> <<>>,
   children |-> [k \in 1..Len(node.children) |-> Bare(node.children[k])]]

\* an annotation under the parent has a target
HasTarget(parent) ==
  \/ parent.type # "root"
  \/ \E j \in 1..Len(parent.children) : NotAnnotation(parent.children[j])

\* the tree without the annotations that have a target, all else as it was
RECURSIVE Pruned(_)
Pruned(node) ==
  LET kept == SelectSeq([k \in 1..Len(node.children) |-> node.children[k]],
                        LAMBDA c : ~(c.type = "html" /\ IsAdfMetadataComment(c.value)
                                      /\ HasTarget(node)))
  IN [type |-> node.type, value |-> node.value, adfMetadata |-> <<>>,
      children |-> [k \in 1..Len(kept) |-> Pruned(kept[k])]]

FirstCall(x, strict, fault) ==
  LET tree == PostProcessAdfFenceBlocks(ParseMarkdown(PreprocessNestedAdfBlocks(x.v)))
  IN IF InvalidInput(x) THEN (IF strict THEN Raised ELSE Returned(EmptyDoc))
     ELSE IF IsBlank(x.v) THEN Returned(EmptyDoc)
     ELSE IF fault \in {"preprocess", "parse"} THEN CatchOuter(strict, x.v)
     ELSE IF \/ fault \in {"metadata", "fence", "build", "cleanup"}
             \/ strict /\ FrontmatterRaises(tree, FALSE)
       THEN (IF strict THEN CatchOuter(strict, x.v) ELSE CatchInner)
     ELSE Returned(CleanupEmptyParagraphs(BuildADFFromMdast(tree)))

Aliases == {<<T_cell, T_tableCell>>, <<T_header, T_tableHeader>>, <<T_cell, T_tableHeader>>}

\* the annotations read that are of the kind of the node or of an alias of it
Matching == {i \in 1..Len(metaParsed) :
               \/ metaParsed[i].nodeType = metaNode.type
               \/ <<metaParsed[i].nodeType, metaNode.type>> \in Aliases}

\* the matching annotations that give the key
Giving(key) == {i \in Matching : key \in Keys(metaParsed[i].attrs)}

\* the attributes of the node before the annotations are applied
BaseAttrs == ImpliedAttributes(metaNode.type, metaNode.attrs)

\* C18: the node gets the attributes of exactly the annotations whose kind is
\* its type or an alias of it (cell is one for tableCell and for tableHeader);
\* on a key several of them give the last one wins; all else stays
C18_MergesMatching ==
  metaPc = "done" =>
    /\ Keys(metaOut.attrs) = Keys(BaseAttrs) \cup UNION {Keys(metaParsed[i].attrs) : i \in Matching}
    /\ \A key \in Keys(metaOut.attrs) :
         Lookup(metaOut.attrs, key) =
           IF Giving(key) = {} THEN Lookup(BaseAttrs, key)
           ELSE Lookup(metaParsed[Max(Giving(key))].attrs, key)
    /\ metaOut.type = metaNode.type

\* a header cell got the id of the later of two annotations, one of kind
\* header and one of kind cell, that gave different ids
C18_Witness ==
  /\ metaPc = "done"
  /\ metaNode.type = T_tableHeader
  /\ Len(metaParsed) = 2
  /\ metaParsed[1].nodeType = T_header /\ metaParsed[2].nodeType = T_cell
  /\ Giving(K_id) = {1, 2}
  /\ Lookup(metaParsed[1].attrs, K_id) # Lookup(metaParsed[2].attrs, K_id)
  /\ Lookup(metaOut.attrs, K_id) = Lookup(metaParsed[2].attrs, K_id)

(***************************************************************************)
(* Properties of parseAttributeString and generateMetadataComment.         *)
(***************************************************************************)
\* the annotation read is the one generateMetadataComment wrote for the node
ReadBack ==
  /\ metaPc \in {"parsed", "done"}
  /\ metaComment = <<GenerateMetadataComment(metaNode.type, metaNode.attrs)>>
  /\ Len(metaParsed) = 1

\* the attributes generateMetadataComment wrote, each as key="value"
WrittenPairs == FilterSignificantAttributes(metaNode.type, metaNode.attrs)

\* the text is a numeric literal
IsNumeral(text) == text # <<>> /\ \A k \in 1..Len(text) : text[k] \in Digit

\* the value a written text stands for: a boolean for true and false, a
\* number for a numeric literal, the text itself otherwise
Literal(text) ==
  IF text = TrueText THEN BoolVal(TRUE)
  ELSE IF text = FalseText THEN BoolVal(FALSE)
  ELSE IF IsNumeral(text) THEN NumVal(DigitsVal(text))
  ELSE StrVal(text)

\* C19: the map parseAttributeString returns has exactly the keys written in
\* the string, and each value is a boolean iff its text is true or false, a
\* number iff its text is a numeric literal, and the text itself otherwise.
C19_KeysAndValuesAsWritten ==
  ReadBack =>
    /\ Keys(metaParsed[1].attrs) = Keys(WrittenPairs)
    /\ \A k \in 1..Len(WrittenPairs) :
         /\ WrittenPairs[k].key \in Keys(metaParsed[1].attrs)
         /\ Lookup(metaParsed[1].attrs, WrittenPairs[k].key) = Literal(ToText(WrittenPairs[k].val))

\* the attributes the markup of the type expresses, and the table defaults
ImpliedBySyntax ==
  { <<T_heading, K_level>>, <<T_panel, K_panelType>>, <<T_codeBlock, K_language>>,
    <<T_orderedList, K_order>>, <<T_media, K_alt>> }
TableDefaults ==
  { Attr(K_isNumberColumnEnabled, BoolVal(FALSE)), Attr(K_layout, StrVal(V_default)) }

\* the positions of the attributes of the node that remain
Remaining ==
  {k \in 1..Len(metaNode.attrs) :
     /\ <<metaNode.type, metaNode.attrs[k].key>> \notin ImpliedBySyntax
     /\ ~(metaNode.type = T_table /\ metaNode.attrs[k] \in TableDefaults)}

\* key="value" for the attribute, with a space in front
Listed(a) == <<" ">> \o a.key \o <<"=", "\"">> \o ToText(a.val) \o <<"\"">>

\* the remaining attributes, listed in their order
RECURSIVE ListedFrom(_)
ListedFrom(k) ==
  IF k > Len(metaNode.attrs) THEN <<>>
  ELSE (IF k \in Remaining THEN Listed(metaNode.attrs[k]) ELSE <<>>) \o ListedFrom(k + 1)

\* generateMetadataComment has run on the node
Generated ==
  /\ metaPc = "emitted"
  /\ ~(metaNode \in WrittenTargets /\ metaComment \in WrittenComments)
  /\ metaNode \notin AppliedTargets

\* C20: generateMetadataComment returns the empty string iff no attribute
\* remains once those the markup expresses and the table defaults are taken
\* out; otherwise the annotation lists exactly the remaining attributes, each
\* once, as key="value"
C20_ListsRemaining ==
  Generated =>
    /\ metaComment = <<>> <=> Remaining = {}
    /\ metaComment # <<>> =>
         metaComment[1] = CommentOpen \o <<" ">> \o AdfPrefix \o metaNode.type
                            \o ListedFrom(1) \o <<" ">> \o CommentClose

\* a table with a default and another attribute: only the other one is listed
C20_Witness ==
  /\ Generated
  /\ metaNode.type = T_table
  /\ Len(metaNode.attrs) = 2
  /\ Cardinality(Remaining) = 1
  /\ metaComment # <<>>

(***************************************************************************)
(* Properties of processSpanMetadataComments.                              *)
(***************************************************************************)
\* the kind of an opening comment with attributes, of a closing comment, or
\* <<>> for any other child; meta is what the comment reads as
OpenKindOf(meta) ==
  IF meta.hasAttrs /\ K_closing \notin Keys(meta.attrs) THEN meta.nodeType ELSE <<>>
CloseKindOf(meta) ==
  IF K_closing \in Keys(meta.attrs) THEN meta.nodeType ELSE <<>>
OpenKind(c) ==
  IF c.type = "html" THEN OpenKindOf(ParseAdfMetadataComment(c.value)) ELSE <<>>
CloseKind(c) ==
  IF c.type = "html" THEN CloseKindOf(ParseAdfMetadataComment(c.value)) ELSE <<>>

\* the children from k on start with a span of one kind
SpanStarts(cs, k) ==
  /\ k + 2 <= Len(cs)
  /\ cs[k].type = "html" /\ cs[k + 1].type = "text" /\ cs[k + 2].type = "html"
  /\ OpenKind(cs[k]) # <<>>
  /\ CloseKind(cs[k + 2]) = OpenKind(cs[k])

\* the positions of the spans among the children, in order
RECURSIVE SpanPositions(_, _)
SpanPositions(cs, k) ==
  IF k > Len(cs) THEN <<>>
  ELSE IF SpanStarts(cs, k) THEN <<k>> \o SpanPositions(cs, k + 3)
  ELSE SpanPositions(cs, k + 1)

\* the children with every span, given by its position, as its text alone
RECURSIVE Collapsed(_, _, _)
Collapsed(cs, ps, k) ==
  IF k > Len(cs) THEN <<>>
  ELSE IF ps # <<>> /\ Head(ps) = k
    THEN <<SpanText(cs[k + 1].value)>> \o Collapsed(cs, Tail(ps), k + 3)
  ELSE <<cs[k]>> \o Collapsed(cs, ps, k + 1)

\* the marks the attributes of an opening comment stand for, as a set
MarksFor(attrs) ==
  (IF K_underline \in Keys(attrs) /\ Lookup(attrs, K_underline) = BoolVal(TRUE)
     THEN {Mark("underline", <<>>)} ELSE {})
  \cup {Mark("textColor", <<Attr(K_color, Lookup(attrs, k))>>) : k \in {K_textColor} \cap Keys(attrs)}
  \cup {Mark("backgroundColor", <<Attr(K_color, Lookup(attrs, k))>>) :
          k \in {K_backgroundColor} \cap Keys(attrs)}
  \cup {Mark("subsup", <<Attr(K_type, Lookup(attrs, k))>>) : k \in {K_subsup} \cap Keys(attrs)}

\* the children without the metadata of the collapsed spans
Unmarked(cs) == [k \in 1..Len(cs) |-> SpanChild(cs[k].type, cs[k].value, <<>>)]

\* the leaves that stand for a span, in order
Leaves == SelectSeq(spanKids, LAMBDA c : c.adfMetadata # <<>>)

\* the leaf stands for the span at position p of the children given
StandsForSpan(leaf, p) ==
  /\ Len(leaf.adfMetadata) = 1
  /\ leaf.value = spanIn[p + 1].value
  /\ leaf.adfMetadata[1].attrs = ParseAdfMetadataComment(spanIn[p].value).attrs
  /\ Range(leaf.adfMetadata[1].marks) = MarksFor(leaf.adfMetadata[1].attrs)
  /\ Len(leaf.adfMetadata[1].marks) = Cardinality(MarksFor(leaf.adfMetadata[1].attrs))

\* C21: when the loop is over, every span (opening comment with attributes,
\* text, closing comment of the same kind) is one text leaf with the text of
\* the span, all other children are as they were and in their order, and the
\* marks of a leaf are those of the recognized keys of its opening comment
C21_SpansCollapsed ==
  spanPc = "done" =>
    \A ps \in {SpanPositions(spanIn, 1)} :
      /\ Unmarked(spanKids) = Collapsed(spanIn, ps, 1)
      /\ Len(Leaves) = Len(ps)
      /\ \A k \in 1..Len(ps) : StandsForSpan(Leaves[k], ps[k])

\* two spans of one paragraph are collapsed, one of them with an underline
\* and two colours, and a span with a closing comment of another kind is not
C21_Witness ==
  /\ spanPc = "done"
  /\ Len(Leaves) = 2
  /\ Len(spanIn) = 9
  /\ Len(spanKids) = 5
  /\ \E k \in 1..2 : Len(Leaves[k].adfMetadata[1].marks) = 3

(***************************************************************************)
(* Properties of the date tokens.                                          *)
(***************************************************************************)
\* the date written in the text
WrittenDate == CHOOSE ds \in DateStrings : \E i \in 1..Len(dateText) : IsAt(ds, dateText, i)

\* the days from 1970-01-01 to the day y-m-d of the civil calendar
DaysFromCivil(y, m, d) ==
  LET yy == IF m <= 2 THEN y - 1 ELSE y
      era == yy \div 400
      yoe == yy - era * 400
      doy == (153 * (IF m > 2 THEN m - 3 ELSE m + 9) + 2) \div 5 + d - 1
  IN era * 146097 + yoe * 365 + yoe \div 4 - yoe \div 100 + doy - 719468

\* the text is the decimal form of the milliseconds of that many days
IsMillisOfDays(text, days) ==
  /\ Len(text) > 0
  /\ \A k \in 1..Len(text) : text[k] \in Digit
  /\ IF days = 0 THEN text = <<"0">>
     ELSE /\ Len(text) > 5
          /\ SubSeq(text, Len(text) - 4, Len(text)) = <<"0", "0", "0", "0", "0">>
          /\ DigitsVal(SubSeq(text, 1, Len(text) - 5)) = days * 864

\* C22: the timestamp of the date node of a matched date token, in braces or
\* bare, is a non-empty string of decimal digits, the milliseconds from the
\* epoch to UTC midnight of that date.
C22_TimestampIsEpochMillis ==
  datePc = "done" =>
    IsMillisOfDays(dateNode.attrs.timestamp,
                   DaysFromCivil(DigitsVal(SubSeq(WrittenDate, 1, 4)),
                                 DigitsVal(SubSeq(WrittenDate, 6, 7)),
                                 DigitsVal(SubSeq(WrittenDate, 9, 10))))

NextBlock == BlkConvert
SpecBlock == InitFor("block") /\ [][NextBlock]_vars

(***************************************************************************)
(* Claims about the forward conversion of one block.                       *)
(***************************************************************************)
\* the block the conversion returned for the input, when it returned one
BlkDone(type) == blkPc = "done" /\ blkIn.type = type
Produced == blkOut[1]
HasAttr(node, key, val) == key \in Keys(node.attrs) /\ Lookup(node.attrs, key) = val

\* clamp(d, 1, 6)
Clamp(d) == Max({1, Min({d, 6})})

\* C23: every heading node that forward conversion produces from a heading
\* of depth d has attrs.level = clamp(d, 1, 6), so that the level of a
\* heading of a returned document is within 1..6
C23_HeadingLevelClamped ==
  BlkDone(T_heading) =>
    /\ Len(blkOut) = 1
    /\ Produced.type = T_heading
    /\ HasAttr(Produced, K_level, NumVal(Clamp(blkIn.depth)))
    /\ Lookup(Produced.attrs, K_level).n \in 1..6

\* an annotation of the kind of the produced node that gives the key
Overrides(key) ==
  \E k \in 1..Len(blkIn.meta) :
    /\ blkIn.meta[k].hasAttrs
    /\ blkIn.meta[k].nodeType = blkIn.type
    /\ key \in Keys(blkIn.meta[k].attrs)

\* C24: every table node that forward conversion produces carries
\* isNumberColumnEnabled = false and layout = 'default', unless an attached
\* table annotation overrides the attribute
C24_TableDefaults ==
  BlkDone(T_table) =>
    /\ Len(blkOut) = 1
    /\ Produced.type = T_table
    /\ Overrides(K_isNumberColumnEnabled)
         \/ HasAttr(Produced, K_isNumberColumnEnabled, BoolVal(FALSE))
    /\ Overrides(K_layout) \/ HasAttr(Produced, K_layout, StrVal(V_default))

\* the body the container was written with
Written(body) ==
  IF blkIn.hasValue THEN blkIn.value = BodyText(body)
  ELSE blkIn.children = BodyChildren(body)

\* the references ![alt](media:ID) of a body, in order
MediaReferences(body) ==
  SelectSeq(body, LAMBDA im : IsAt(MediaPrefix, im.url, 1) /\ Len(im.url) > Len(MediaPrefix))

\* the node is the media node of the reference
IsMediaOf(node, im) ==
  /\ node.type = T_media
  /\ HasAttr(node, K_id, StrVal(SubSeq(im.url, Len(MediaPrefix) + 1, Len(im.url))))
  /\ im.alt # <<>> => HasAttr(node, K_alt, StrVal(im.alt))

\* C25: a mediaSingle container converts to a mediaSingle node whose layout
\* is the layout of the fence header, or 'center' when the header gives
\* none, and whose children are the media nodes of the references
\* ![alt](media:ID) inside the container
C25_MediaSingleContainer ==
  BlkDone(T_mediaSingle) =>
    /\ Len(blkOut) = 1
    /\ Produced.type = T_mediaSingle
    /\ HasAttr(Produced, K_layout,
               IF K_layout \in Keys(blkIn.attributes) THEN Lookup(blkIn.attributes, K_layout)
               ELSE StrVal(V_center))
    /\ \A body \in FenceBodies :
         Written(body) =>
           \E refs \in {MediaReferences(body)} :
             /\ Len(Produced.content) = Len(refs)
             /\ \A k \in 1..Len(refs) : IsMediaOf(Produced.content[k], refs[k])

\* the content of the paragraph is exactly one mediaSingle: its only child
\* is an image that refers to a media file
HoldsOneMediaSingle ==
  /\ Len(blkIn.children) = 1
  /\ blkIn.children[1].type = T_image
  /\ MediaIdOf(blkIn.children[1].url) # <<>>

\* the annotations of the paragraph after the k-th that give the key
GivenLater(k, key) ==
  \E j \in (k + 1)..Len(blkIn.meta) :
    blkIn.meta[j].hasAttrs /\ key \in Keys(blkIn.meta[j].attrs)

\* C26: a paragraph whose content is exactly one mediaSingle is replaced by
\* that mediaSingle among the children of its parent, and every attribute an
\* annotation attached to the paragraph is on the promoted mediaSingle
C26_BlockPromotion ==
  (BlkDone(T_paragraph) /\ HoldsOneMediaSingle) =>
    /\ Len(blkOut) = 1
    /\ Produced.type = T_mediaSingle
    /\ \A k \in 1..Len(blkIn.meta) :
         blkIn.meta[k].nodeType \in {T_paragraph, T_mediaSingle} =>
           \A key \in Keys(blkIn.meta[k].attrs) :
             \/ HasAttr(Produced, key, Lookup(blkIn.meta[k].attrs, key))
             \/ GivenLater(k, key) /\ key \in Keys(Produced.attrs)

NextCleanup == EngCleanup
SpecCleanup == InitFor("cleanup") /\ [][NextCleanup]_vars

(***************************************************************************)
(* Claims about the cleanup pass.                                          *)
(***************************************************************************)
\* the leaf is a text of white space only (the empty text included)
WhitespaceLeaf(leaf) ==
  leaf.type = "text" /\ \A k \in 1..Len(leaf.text) : leaf.text[k].k = "blank"
\* the node is a paragraph that consists of such leaves only
WhitespaceParagraph(node) ==
  /\ node.type = "paragraph"
  /\ \A k \in 1..Len(node.content) : WhitespaceLeaf(node.content[k])

\* a paragraph of white space at any depth below these nodes
RECURSIVE HoldsWhitespaceParagraph(_)
HoldsWhitespaceParagraph(ns) ==
  \E k \in 1..Len(ns) :
    WhitespaceParagraph(ns[k]) \/ HoldsWhitespaceParagraph(ns[k].content)

\* after is before without its paragraphs of white space, at every depth,
\* and with nothing else removed or changed
RECURSIVE OnlyWhitespacePruned(_, _)
OnlyWhitespacePruned(before, after) ==
  \E kept \in {SelectSeq(before, LAMBDA n : ~WhitespaceParagraph(n))} :
    /\ Len(after) = Len(kept)
    /\ \A k \in 1..Len(kept) :
         /\ after[k].type = kept[k].type
         /\ after[k].attrs = kept[k].attrs
         /\ after[k].text = kept[k].text
         /\ OnlyWhitespacePruned(kept[k].content, after[k].content)

\* C27: in every document a successful conversion returns no paragraph at
\* any depth consists of white-space text leaves only, and the cleanup pass
\* removes no other node and changes the content of no other node
C27_CleanupPrunesOnlyWhitespace ==
  (engPc = "done" /\ engResult.kind = "returned") =>
    /\ ~HoldsWhitespaceParagraph(engResult.doc.content)
    /\ OnlyWhitespacePruned(engAdf.content, engResult.doc.content)
    /\ engResult.doc.version = engAdf.version
    /\ engResult.doc.type = engAdf.type

\* a nested paragraph of white space went, one beside it with a hard break
\* stayed, and a top-level one went too
C27_Witness ==
  /\ engPc = "done"
  /\ engResult.kind = "returned"
  /\ Len(engAdf.content) = 2
  /\ Len(engResult.doc.content) = 1
  /\ engAdf.content[1].type = "panel"
  /\ Len(engAdf.content[1].content) = 3
  /\ Len(engResult.doc.content[1].content) = 1

NextReverse == RevConvert
SpecReverse == InitFor("reverse") /\ [][NextReverse]_vars

(***************************************************************************)
(* Claims about the reverse conversion of a text leaf.                     *)
(***************************************************************************)
\* the generic node a mark is written as
WrapperOf(type) ==
  CASE type = "strong" -> "strong"
    [] type = "em" -> "emphasis"
    [] type = "strike" -> "delete"
    [] type = "link" -> "link"
    [] type = "code" -> "inlineCode"

\* node holds the text inside one wrapper for every mark, the last mark
\* outermost; a code mark is the inline code of the text
RECURSIVE NestedAs(_, _, _)
NestedAs(node, marks, text) ==
  IF marks = <<>> THEN node.type = "text" /\ node.value = Str(text)
  ELSE \E m \in {marks[Len(marks)]} :
         /\ node.type = WrapperOf(m.type)
         /\ m.type = "link" => node.url = m.href /\ node.title = m.title
         /\ IF m.type = "code" THEN node.value = Str(text)
            ELSE /\ Len(node.children) = 1
                 /\ NestedAs(node.children[1], SubSeq(marks, 1, Len(marks) - 1), text)

\* C28: reverse conversion of a text leaf nests its marks outward in list
\* order ([em, strong] gives strong around emphasis around the text), every
\* mark of the leaf is represented by a wrapper, and a link mark becomes a
\* link node that carries both its href and its title
C28_MarksRenested ==
  (revPc = "done" /\ revIn.type = "text") => NestedAs(revOut, revIn.marks, revIn.text)

NextCard == CardParagraph
SpecCard == InitFor("card") /\ [][NextCard]_vars

(***************************************************************************)
(* Claims about inline cards.                                              *)
(***************************************************************************)
\* the child k of the paragraph is a link with the directive right after it
DirectiveFollows(k) ==
  /\ cardKids[k].type = "link"
  /\ k < Len(cardKids)
  /\ cardKids[k + 1] = MdHtml(InlineCardDirective)

\* what the child k of the paragraph stands for in the content: a card for
\* a link of the card: scheme or with the directive after it, nothing for
\* the directive, and its leaves with their marks for anything else
CardStandsFor(k) ==
  IF cardKids[k].type = "html" THEN <<>>
  ELSE IF DirectiveFollows(k) /\ ~IsAt(CardPrefix, cardKids[k].url, 1)
    THEN <<TokenNode("inlineCard", [url |-> cardKids[k].url])>>
  ELSE ConvertMdastInlineNode(cardKids[k])

\* C29: within a paragraph a link becomes an inlineCard exactly when the
\* directive <!-- adf:inlineCard --> follows it immediately (or its URL is
\* of the card: scheme); every other link, one with the URL of a converted
\* link included, stays a text leaf with a link mark
C29_OnlyMarkedLinksBecomeCards ==
  cardPc = "done" =>
    cardOut = Flatten([k \in 1..Len(cardKids) |-> CardStandsFor(k)])

(***************************************************************************)
(* Claims about the nesting consolidation as a whole.                      *)
(***************************************************************************)
\* the children the block of the output had in the input, and those it gained
OriginalChildren(b) == SelectSeq(b.content, LAMBDA c : c.id < 0)
GainedChildren(b) == SelectSeq(b.content, LAMBDA c : c.id > 0)

\* the output in document order: every block as it was in the input, and
\* after it the blocks it absorbed
RECURSIVE DocumentOrder(_)
DocumentOrder(bs) ==
  IF bs = <<>> THEN <<>>
  ELSE <<[Head(bs) EXCEPT !.content = OriginalChildren(Head(bs))]>>
         \o GainedChildren(Head(bs)) \o DocumentOrder(Tail(bs))

\* the first sibling after position p that is neither a fence container nor
\* a paragraph, or the position after the last sibling
FirstOther(p) ==
  Min({q \in (p + 1)..Len(consIn) :
         consIn[q].type \notin
           {"panel", "expand", "nestedExpand", "mediaSingle", "mediaGroup", "paragraph"}}
      \cup {Len(consIn) + 1})

\* C30: postProcessNestedAdfFenceBlocks neither drops, duplicates nor
\* reorders nodes (the output in document order, the absorbed nodes after
\* the original children of their container, is the input sequence); only
\* panel and expand nodes gain children; and a container that absorbs takes
\* its following siblings up to the first one that is neither a fence
\* container nor a paragraph
C30_ConsolidationKeepsNodes ==
  consPc = "done" =>
    /\ DocumentOrder(consOut) = consIn
    /\ \A k \in 1..Len(consOut) :
         \E gained \in {GainedChildren(consOut[k])} :
           gained # <<>> =>
             /\ consOut[k].type \in {"panel", "expand"}
             /\ consOut[k].content = OriginalChildren(consOut[k]) \o gained
             /\ gained = SubSeq(consIn, consOut[k].id + 1, FirstOther(consOut[k].id) - 1)

\* an expand took a panel and a paragraph and stopped at the heading
C30_Witness ==
  /\ consPc = "done"
  /\ Len(consIn) = 4
  /\ Len(consOut) = 2
  /\ consOut[1].type = "expand"
  /\ Len(GainedChildren(consOut[1])) = 2
  /\ GainedChildren(consOut[1])[1].type = "panel"
  /\ GainedChildren(consOut[1])[2].type = "paragraph"
  /\ consOut[2].type = "heading"

=============================================================================
